---------------------------- MODULE Spec2Model ----------------------------
(***************************************************************************)
(* Climate-financial risk engine: credit rating assessor, cash-flow        *)
(* engine and debt amortization schedule.                                  *)
(*                                                                         *)
(* Python floats are modelled as exact rationals <<n, d>> (d > 0, lowest   *)
(* terms).  The one place where binary floating point decides an outcome   *)
(* is round(weighted_score) at an exact half: the accumulated float error  *)
(* of the seven weighted terms pushes the sum just above or just below     *)
(* x.5, so the direction of the rounding at an exact half is an unknown    *)
(* of the run (fp_tie_up).                                                 *)
(***************************************************************************)
EXTENDS Integers, Sequences, FiniteSets, TLC

VARIABLES
    fin,          \* arguments of calculate_rating_metrics_from_financials
    metrics,      \* RatingMetrics
    assessment,   \* RatingAssessment of metrics
    prev,         \* the assessment before the DSCR was changed
    fp_tie_up,    \* direction of round() at an exact half
    cf_in,        \* arguments of compute_cashflows_timeseries
    cashflow,     \* the CashFlowTimeSeries it returned
    cash_prev,    \* the run before the physical adjustment was changed
    debt_in,      \* arguments of calculate_debt_service
    debt_struct,  \* the DebtStructure it returned
    fi_in,        \* the financing calculator called and its arguments
    fi_out,       \* the FinancingImpact it returned
    hazard_in,    \* a row of climada_hazards.csv, or calculate_compound_risk's arguments
    hazard,       \* the CLIMADAHazardData built from it
    hazard_dict,  \* its to_dict() export
    pr_in,        \* the probabilistic engine's method called and its arguments
    pr_out,       \* what it returned
    runner,       \* the CRPModelRunner: parameters and catalogs loaded by __init__
    scenario_specs, \* the list handed to run_multi_scenario
    multi,        \* run_multi_scenario's position, results and baseline_result
    threads,      \* the locals of each concurrent run_scenario call
    cp_in,        \* the trajectory queried by get_carbon_price and the year
    cp_out,       \* the carbon price it returned
    cp_prev       \* the query made before this one, with its price

rating_vars == <<fin, metrics, assessment, prev, fp_tie_up>>
cash_vars == <<cf_in, cashflow, cash_prev>>
debt_vars == <<debt_in, debt_struct>>
financing_vars == <<fi_in, fi_out>>
core_vars == <<rating_vars, cash_vars, debt_vars>>
hazard_vars == <<hazard_in, hazard, hazard_dict>>
prob_vars == <<pr_in, pr_out>>
runner_vars == <<runner, scenario_specs, multi, threads>>
carbon_vars == <<cp_in, cp_out, cp_prev>>
ext_vars == <<financing_vars, hazard_vars, prob_vars, runner_vars, carbon_vars>>
vars == <<core_vars, ext_vars>>

None == [kind |-> "none"]
PyNone == <<>>

----------------------------------------------------------------------------
(* Exact arithmetic standing for Python / numpy float arithmetic.          *)

Abs(x) == IF x < 0 THEN -x ELSE x

RECURSIVE GCD(_, _)
GCD(a, b) == IF b = 0 THEN a ELSE GCD(b, a % b)

Norm(n, d) ==
    LET g == GCD(Abs(n), Abs(d))
        s == IF d < 0 THEN -1 ELSE 1
    IN  <<s * (n \div g), s * (d \div g)>>

R(n) == <<n, 1>>

RatAdd(a, b) ==
    LET g == GCD(a[2], b[2])
    IN  Norm(a[1] * (b[2] \div g) + b[1] * (a[2] \div g), (a[2] \div g) * b[2])

RatNeg(a) == <<-a[1], a[2]>>

RatSub(a, b) == RatAdd(a, RatNeg(b))

RatMul(a, b) ==
    LET g1 == GCD(Abs(a[1]), b[2])
        g2 == GCD(Abs(b[1]), a[2])
    IN  <<(a[1] \div g1) * (b[1] \div g2), (a[2] \div g2) * (b[2] \div g1)>>

\* A Python division; the divisor is non-zero wherever the code divides.
RatDiv(a, b) == RatMul(a, Norm(b[2], b[1]))

RatLt(a, b) == a[1] * b[2] < b[1] * a[2]
RatLe(a, b) == a[1] * b[2] <= b[1] * a[2]
RatGt(a, b) == RatLt(b, a)
RatGe(a, b) == RatLe(b, a)

RatMax(a, b) == IF RatLt(a, b) THEN b ELSE a
RatMin(a, b) == IF RatLt(b, a) THEN b ELSE a

RECURSIVE RatPow(_, _)
RatPow(a, k) == IF k = 0 THEN R(1) ELSE RatMul(a, RatPow(a, k - 1))

\* Python's round() of a float: to the nearest integer; at an exact half the
\* float holding the sum lies just above or just below it (up).
PyRound(x, up) ==
    LET q == x[1] \div x[2]
        twice == 2 * (x[1] - q * x[2])
    IN  IF twice < x[2] THEN q
        ELSE IF twice > x[2] THEN q + 1
        ELSE IF up THEN q + 1 ELSE q

IntMax(a, b) == IF a < b THEN b ELSE a
IntMin(a, b) == IF b < a THEN b ELSE a

----------------------------------------------------------------------------
(* class Rating(Enum)                                                      *)

AAA == 1
AA == 2
A == 3
BBB == 4
BB == 5
B == 6
CCC == 7
CC == 8
C == 9
D == 10

Rating == AAA..D

is_distressed(r) == r >= CCC

rate_capacity(capacity_mw) ==
    IF RatGe(capacity_mw, R(2000)) THEN AAA
    ELSE IF RatGe(capacity_mw, R(800)) THEN AA
    ELSE IF RatGe(capacity_mw, R(400)) THEN A
    ELSE IF RatGe(capacity_mw, R(100)) THEN BBB
    ELSE IF RatGe(capacity_mw, R(20)) THEN BB
    ELSE B

rate_profitability(ebitda_to_fixed_assets, is_negative) ==
    IF is_negative \/ RatLt(ebitda_to_fixed_assets, R(-20)) THEN CC
    ELSE IF RatLt(ebitda_to_fixed_assets, R(-10)) THEN CCC
    ELSE IF RatLt(ebitda_to_fixed_assets, R(0)) THEN B
    ELSE IF RatGe(ebitda_to_fixed_assets, R(15)) THEN AAA
    ELSE IF RatGe(ebitda_to_fixed_assets, R(11)) THEN AA
    ELSE IF RatGe(ebitda_to_fixed_assets, R(8)) THEN A
    ELSE IF RatGe(ebitda_to_fixed_assets, R(4)) THEN BBB
    ELSE IF RatGe(ebitda_to_fixed_assets, R(1)) THEN BB
    ELSE B

rate_coverage(ebitda_to_interest) ==
    IF RatLt(ebitda_to_interest, R(-5)) THEN D
    ELSE IF RatLt(ebitda_to_interest, R(-2)) THEN C
    ELSE IF RatLt(ebitda_to_interest, R(0)) THEN CC
    ELSE IF RatLt(ebitda_to_interest, <<1, 2>>) THEN CCC
    ELSE IF RatGe(ebitda_to_interest, R(12)) THEN AAA
    ELSE IF RatGe(ebitda_to_interest, R(6)) THEN AA
    ELSE IF RatGe(ebitda_to_interest, R(4)) THEN A
    ELSE IF RatGe(ebitda_to_interest, R(2)) THEN BBB
    ELSE IF RatGe(ebitda_to_interest, R(1)) THEN BB
    ELSE B

\* A plausible slip: the CC and CCC bands exchanged.
rate_dscr_swapped(dscr) ==
    IF RatLt(dscr, R(0)) THEN D
    ELSE IF RatLt(dscr, <<1, 2>>) THEN C
    ELSE IF RatLt(dscr, <<4, 5>>) THEN CCC
    ELSE IF RatLt(dscr, R(1)) THEN CC
    ELSE IF RatGe(dscr, <<5, 2>>) THEN AAA
    ELSE IF RatGe(dscr, R(2)) THEN AA
    ELSE IF RatGe(dscr, <<8, 5>>) THEN A
    ELSE IF RatGe(dscr, <<13, 10>>) THEN BBB
    ELSE IF RatGe(dscr, <<11, 10>>) THEN BB
    ELSE B

rate_dscr(dscr) ==
    IF RatLt(dscr, R(0)) THEN D
    ELSE IF RatLt(dscr, <<1, 2>>) THEN C
    ELSE IF RatLt(dscr, <<4, 5>>) THEN CC
    ELSE IF RatLt(dscr, R(1)) THEN CCC
    ELSE IF RatGe(dscr, <<5, 2>>) THEN AAA
    ELSE IF RatGe(dscr, R(2)) THEN AA
    ELSE IF RatGe(dscr, <<8, 5>>) THEN A
    ELSE IF RatGe(dscr, <<13, 10>>) THEN BBB
    ELSE IF RatGe(dscr, <<11, 10>>) THEN BB
    ELSE B

rate_net_debt_leverage(net_debt_to_ebitda, is_ebitda_negative) ==
    IF is_ebitda_negative THEN CC
    ELSE IF RatLt(net_debt_to_ebitda, R(0)) THEN AAA
    ELSE IF RatGt(net_debt_to_ebitda, R(20)) THEN CCC
    ELSE IF RatLe(net_debt_to_ebitda, R(1)) THEN AAA
    ELSE IF RatLe(net_debt_to_ebitda, R(4)) THEN AA
    ELSE IF RatLe(net_debt_to_ebitda, R(7)) THEN A
    ELSE IF RatLe(net_debt_to_ebitda, R(10)) THEN BBB
    ELSE IF RatLe(net_debt_to_ebitda, R(12)) THEN BB
    ELSE B

rate_equity_leverage(debt_to_equity) ==
    IF RatLe(debt_to_equity, R(80)) THEN AAA
    ELSE IF RatLe(debt_to_equity, R(150)) THEN AA
    ELSE IF RatLe(debt_to_equity, R(250)) THEN A
    ELSE IF RatLe(debt_to_equity, R(300)) THEN BBB
    ELSE IF RatLe(debt_to_equity, R(400)) THEN BB
    ELSE B

rate_asset_leverage(debt_to_assets) ==
    IF RatLe(debt_to_assets, R(20)) THEN AAA
    ELSE IF RatLe(debt_to_assets, R(40)) THEN AA
    ELSE IF RatLe(debt_to_assets, R(60)) THEN A
    ELSE IF RatLe(debt_to_assets, R(80)) THEN BBB
    ELSE IF RatLe(debt_to_assets, R(90)) THEN BB
    ELSE B

\* assess_credit_rating: the component ratings (lines 336-348)
component_ratings(m) ==
    LET is_ebitda_negative ==
            m.is_ebitda_negative \/ RatLt(m.ebitda_to_fixed_assets, R(0))
    IN  [capacity |-> rate_capacity(m.capacity_mw),
         profitability |-> rate_profitability(m.ebitda_to_fixed_assets, is_ebitda_negative),
         coverage |-> rate_coverage(m.ebitda_to_interest),
         dscr |-> rate_dscr(m.dscr),
         net_debt_leverage |-> rate_net_debt_leverage(m.net_debt_to_ebitda, is_ebitda_negative),
         equity_leverage |-> rate_equity_leverage(m.debt_to_equity),
         asset_leverage |-> rate_asset_leverage(m.debt_to_assets)]

\* The weights the docstring of assess_credit_rating announces (DSCR 40%,
\* coverage 20%, leverage 40% combined), not the ones the body uses.
weights_docstring ==
    [capacity |-> <<0, 1>>, profitability |-> <<0, 1>>, coverage |-> <<1, 5>>,
     dscr |-> <<2, 5>>, net_debt_leverage |-> <<1, 5>>,
     equity_leverage |-> <<1, 10>>, asset_leverage |-> <<1, 10>>]

weights ==
    [capacity |-> <<1, 20>>, profitability |-> <<1, 10>>, coverage |-> <<3, 20>>,
     dscr |-> <<7, 20>>, net_debt_leverage |-> <<3, 20>>,
     equity_leverage |-> <<1, 10>>, asset_leverage |-> <<1, 10>>]

weighted_score(cr) ==
    LET t(f) == RatMul(R(cr[f]), weights[f])
    IN  RatAdd(RatAdd(RatAdd(RatAdd(RatAdd(RatAdd(
            t("capacity"), t("profitability")), t("coverage")), t("dscr")),
            t("net_debt_leverage")), t("equity_leverage")), t("asset_leverage"))

rounded_score(cr, up) == IntMax(1, IntMin(10, PyRound(weighted_score(cr), up)))

\* A plausible slip: coverage left out of the critical metrics.
critical_metrics_without_coverage == {"dscr", "profitability"}

critical_metrics == {"dscr", "coverage", "profitability"}

\* A plausible slip: only near-default ratings count as distress.
distress_ratings_from_c(cr) == {cr[f] : f \in {g \in critical_metrics : cr[g] >= C}}

distress_ratings(cr) == {cr[f] : f \in {g \in critical_metrics : cr[g] >= 7}}

SetMax(S) == CHOOSE x \in S : \A y \in S : y <= x
SetMin(S) == CHOOSE x \in S : \A y \in S : x <= y

\* A plausible slip: the best, not the worst, distressed critical rating.
worst_distress_min(cr) == SetMin(distress_ratings(cr))

worst_distress(cr) == SetMax(distress_ratings(cr))

\* A plausible slip: the distress override left out, the weighted average
\* returned in every case.
assess_credit_rating_average_only(m, up) ==
    LET cr == component_ratings(m)
    IN  [kind |-> "assessment",
         overall_rating |-> rounded_score(cr, up),
         component_ratings |-> cr,
         rating_rationale |-> "Weighted average"]

assess_credit_rating(m, up) ==
    LET cr == component_ratings(m)
    IN  IF distress_ratings(cr) # {}
        THEN [kind |-> "assessment",
              overall_rating |-> IntMax(rounded_score(cr, up), worst_distress(cr)),
              component_ratings |-> cr,
              rating_rationale |-> "Distress-driven rating"]
        ELSE [kind |-> "assessment",
              overall_rating |-> rounded_score(cr, up),
              component_ratings |-> cr,
              rating_rationale |-> "Weighted average"]


\* A Python division that raises ZeroDivisionError on a zero divisor.
Raised == <<0, 0>>
PyDiv(a, b) == IF b[1] = 0 THEN Raised ELSE RatDiv(a, b)

\* A plausible slip: net debt divided by an EBITDA of zero.
calculate_rating_metrics_unguarded(f) ==
    LET is_ebitda_negative == RatLt(f.ebitda, R(0))
        ebitda_to_fixed_assets ==
            IF RatGt(f.fixed_assets, R(0))
            THEN RatMul(PyDiv(f.ebitda, f.fixed_assets), R(100))
            ELSE R(0)
        ebitda_to_interest ==
            IF RatGt(f.interest_expense, R(0))
            THEN PyDiv(f.ebitda, f.interest_expense)
            ELSE IF RatGe(f.ebitda, R(0)) THEN R(999) ELSE R(-999)
        net_debt == RatSub(f.total_debt, f.cash_and_equivalents)
        net_debt_to_ebitda ==
            IF is_ebitda_negative
            THEN IF RatGt(net_debt, R(0)) THEN R(999) ELSE R(-999)
            ELSE PyDiv(net_debt, f.ebitda)
        debt_to_equity ==
            IF RatGt(f.total_equity, R(0))
            THEN RatMul(PyDiv(f.total_debt, f.total_equity), R(100))
            ELSE R(999)
        debt_to_assets ==
            IF RatGt(f.total_assets, R(0))
            THEN RatMul(PyDiv(f.total_debt, f.total_assets), R(100))
            ELSE R(100)
        estimated_debt_service == RatMul(f.interest_expense, <<3, 2>>)
        calculated_dscr ==
            IF f.dscr # PyNone THEN f.dscr
            ELSE IF f.total_debt_service # PyNone /\ RatGt(f.total_debt_service, R(0))
            THEN IF f.cfads # PyNone
                 THEN PyDiv(f.cfads, f.total_debt_service)
                 ELSE PyDiv(f.ebitda, f.total_debt_service)
            ELSE IF RatGt(f.interest_expense, R(0))
            THEN IF RatGt(estimated_debt_service, R(0))
                 THEN PyDiv(f.ebitda, estimated_debt_service)
                 ELSE R(0)
            ELSE IF RatLt(ebitda_to_interest, R(100)) THEN ebitda_to_interest
            ELSE R(2)
        m == [kind |-> "metrics",
              capacity_mw |-> f.capacity_mw,
              ebitda_to_fixed_assets |-> ebitda_to_fixed_assets,
              ebitda_to_interest |-> ebitda_to_interest,
              net_debt_to_ebitda |-> net_debt_to_ebitda,
              debt_to_equity |-> debt_to_equity,
              debt_to_assets |-> debt_to_assets,
              dscr |-> calculated_dscr,
              is_ebitda_negative |-> is_ebitda_negative]
    IN  IF Raised \in {m.ebitda_to_fixed_assets, m.ebitda_to_interest,
                       m.net_debt_to_ebitda, m.debt_to_equity, m.debt_to_assets, m.dscr}
        THEN [kind |-> "ZeroDivisionError"]
        ELSE m

calculate_rating_metrics_from_financials(f) ==
    LET is_ebitda_negative == RatLt(f.ebitda, R(0))
        ebitda_to_fixed_assets ==
            IF RatGt(f.fixed_assets, R(0))
            THEN RatMul(PyDiv(f.ebitda, f.fixed_assets), R(100))
            ELSE R(0)
        ebitda_to_interest ==
            IF RatGt(f.interest_expense, R(0))
            THEN PyDiv(f.ebitda, f.interest_expense)
            ELSE IF RatGe(f.ebitda, R(0)) THEN R(999) ELSE R(-999)
        net_debt == RatSub(f.total_debt, f.cash_and_equivalents)
        net_debt_to_ebitda ==
            IF is_ebitda_negative
            THEN IF RatGt(net_debt, R(0)) THEN R(999) ELSE R(-999)
            ELSE IF RatGt(f.ebitda, R(0)) THEN PyDiv(net_debt, f.ebitda)
            ELSE R(999)
        debt_to_equity ==
            IF RatGt(f.total_equity, R(0))
            THEN RatMul(PyDiv(f.total_debt, f.total_equity), R(100))
            ELSE R(999)
        debt_to_assets ==
            IF RatGt(f.total_assets, R(0))
            THEN RatMul(PyDiv(f.total_debt, f.total_assets), R(100))
            ELSE R(100)
        estimated_debt_service == RatMul(f.interest_expense, <<3, 2>>)
        calculated_dscr ==
            IF f.dscr # PyNone THEN f.dscr
            ELSE IF f.total_debt_service # PyNone /\ RatGt(f.total_debt_service, R(0))
            THEN IF f.cfads # PyNone
                 THEN PyDiv(f.cfads, f.total_debt_service)
                 ELSE PyDiv(f.ebitda, f.total_debt_service)
            ELSE IF RatGt(f.interest_expense, R(0))
            THEN IF RatGt(estimated_debt_service, R(0))
                 THEN PyDiv(f.ebitda, estimated_debt_service)
                 ELSE R(0)
            ELSE IF RatLt(ebitda_to_interest, R(100)) THEN ebitda_to_interest
            ELSE R(2)
        m == [kind |-> "metrics",
              capacity_mw |-> f.capacity_mw,
              ebitda_to_fixed_assets |-> ebitda_to_fixed_assets,
              ebitda_to_interest |-> ebitda_to_interest,
              net_debt_to_ebitda |-> net_debt_to_ebitda,
              debt_to_equity |-> debt_to_equity,
              debt_to_assets |-> debt_to_assets,
              dscr |-> calculated_dscr,
              is_ebitda_negative |-> is_ebitda_negative]
    IN  IF Raised \in {m.ebitda_to_fixed_assets, m.ebitda_to_interest,
                       m.net_debt_to_ebitda, m.debt_to_equity, m.debt_to_assets, m.dscr}
        THEN [kind |-> "ZeroDivisionError"]
        ELSE m

----------------------------------------------------------------------------
(* Inputs of the rating assessor.                                          *)

\* One DSCR per band of rate_dscr, each on the band's closed edge.
DscrInputs ==
    {<<-1, 2>>, R(0), <<1, 2>>, <<4, 5>>, R(1), <<11, 10>>, <<13, 10>>,
     <<8, 5>>, R(2), <<5, 2>>}

\* One EBITDA/interest per band of rate_coverage.
CoverageInputs ==
    {R(-999), R(-5), R(-2), R(0), <<1, 2>>, R(1), R(2), R(4), R(6), R(12)}

MetricsInputs ==
    [kind : {"metrics"},
     capacity_mw : {R(10), R(2000)},
     ebitda_to_fixed_assets : {R(-1), R(0), R(4), R(15)},
     ebitda_to_interest : CoverageInputs,
     net_debt_to_ebitda : {R(-999), R(10), R(999)},
     debt_to_equity : {R(80), R(999)},
     debt_to_assets : {R(20), R(100)},
     dscr : DscrInputs,
     is_ebitda_negative : {FALSE}]

FinancialInputs ==
    [kind : {"financials"},
     capacity_mw : {R(2100)},
     ebitda : {R(-200), R(-1), R(0), R(100)},
     fixed_assets : {R(0), R(1000)},
     interest_expense : {R(-10), R(0), R(50)},
     total_debt : {R(0), R(500)},
     cash_and_equivalents : {R(600)},
     total_equity : {R(-100), R(0), R(400)},
     total_assets : {R(0), R(1000)},
     dscr : {PyNone, R(3)},
     total_debt_service : {PyNone, R(0), R(80)},
     cfads : {PyNone, R(120)}]

----------------------------------------------------------------------------
(* The rating assessor as a state machine.                                 *)

RatingIdle ==
    /\ fin = None /\ metrics = None /\ assessment = None /\ prev = None
    /\ fp_tie_up = FALSE

CashIdle == cf_in = None /\ cashflow = None /\ cash_prev = None

DebtIdle == debt_in = None /\ debt_struct = None

FinancingIdle == fi_in = None /\ fi_out = None

HazardIdle == hazard_in = None /\ hazard = None /\ hazard_dict = None

ProbIdle == pr_in = None /\ pr_out = None

RunnerIdle == runner = None /\ scenario_specs = None /\ multi = None /\ threads = None

CarbonIdle == cp_in = None /\ cp_out = None /\ cp_prev = None

ExtIdle == FinancingIdle /\ HazardIdle /\ ProbIdle /\ RunnerIdle /\ CarbonIdle

InitRating ==
    /\ CashIdle
    /\ DebtIdle
    /\ ExtIdle
    /\ fp_tie_up \in BOOLEAN
    /\ assessment = None
    /\ prev = None
    /\ \/ fin = None /\ metrics \in MetricsInputs
       \/ fin \in FinancialInputs /\ metrics = None

CalculateRatingMetrics ==
    /\ fin # None
    /\ metrics = None
    /\ metrics' = calculate_rating_metrics_from_financials(fin)
    /\ UNCHANGED <<fin, assessment, prev, fp_tie_up, cash_vars, debt_vars, ext_vars>>

AssessCreditRating ==
    /\ metrics.kind = "metrics"
    /\ assessment = None
    /\ assessment' = assess_credit_rating(metrics, fp_tie_up)
    /\ UNCHANGED <<fin, metrics, prev, fp_tie_up, cash_vars, debt_vars, ext_vars>>

\* The assessor run again on the same metrics with another DSCR.
AssessWithDscr(d) ==
    /\ assessment # None
    /\ prev = None
    /\ d # metrics.dscr
    /\ prev' = [kind |-> "prev", dscr |-> metrics.dscr,
                overall_rating |-> assessment.overall_rating]
    /\ metrics' = [metrics EXCEPT !.dscr = d]
    /\ assessment' = assess_credit_rating(metrics', fp_tie_up)
    /\ UNCHANGED <<fin, fp_tie_up, cash_vars, debt_vars, ext_vars>>

NextRating ==
    \/ CalculateRatingMetrics
    \/ AssessCreditRating
    \/ \E d \in DscrInputs : AssessWithDscr(d)

SpecRating == InitRating /\ [][NextRating]_vars

----------------------------------------------------------------------------
(* Cash-flow engine: src/financials/cashflow.py                            *)

\* MarketScenario.get_demand_factor
get_demand_factor(ms, year, base_year) ==
    RatPow(RatAdd(R(1), RatDiv(ms.demand_growth_pct, R(100))), year - base_year)

\* MarketScenario.get_power_price
get_power_price(ms, year, base_year) ==
    LET demand_factor == get_demand_factor(ms, year, base_year)
        demand_change_pct == RatMul(RatSub(demand_factor, R(1)), R(100))
        price_change_pct == RatMul(demand_change_pct, ms.price_sensitivity)
        price_factor == RatAdd(R(1), RatDiv(price_change_pct, R(100)))
    IN  RatMul(ms.base_power_price, price_factor)

\* TransitionScenario._interpolate_carbon_price, for years up to 2050 (the
\* geometric extrapolation beyond 2050 is irrational; no modelled run gets
\* there).
interpolate_carbon_price(ts, year) ==
    IF year <= 2025 THEN ts.carbon_price_2025
    ELSE IF year <= 2030
    THEN RatAdd(ts.carbon_price_2025,
                RatMul(Norm(year - 2025, 5),
                       RatSub(ts.carbon_price_2030, ts.carbon_price_2025)))
    ELSE IF year <= 2040
    THEN RatAdd(ts.carbon_price_2030,
                RatMul(Norm(year - 2030, 10),
                       RatSub(ts.carbon_price_2040, ts.carbon_price_2030)))
    ELSE RatAdd(ts.carbon_price_2040,
                RatMul(Norm(year - 2040, 10),
                       RatSub(ts.carbon_price_2050, ts.carbon_price_2040)))

\* TransitionScenario.get_carbon_price with no linked CarbonPricingScenario.
get_carbon_price(ts, year) == interpolate_carbon_price(ts, year)

\* A plausible slip: the cap of base_cf x demand at 1.0 forgotten.
cf_series_uncapped(in) ==
    LET n_years == in.transition_adj.operating_years
        base_cf == in.transition_adj.capacity_factor
        base_cf_series == [i \in 1..n_years |->
            IF in.market # None
            THEN RatMul(base_cf,
                        get_demand_factor(in.market, in.start_year + i - 1, in.start_year))
            ELSE base_cf]
    IN  [i \in 1..n_years |->
            RatMax(RatMin(RatMul(base_cf_series[i],
                                 RatSub(R(1), in.physical_adj.capacity_derate)),
                          in.physical_adj.water_constrained_capacity),
                   R(0))]

\* A plausible slip: the derate added to, not taken from, the utilisation.
cf_series_derate_added(in) ==
    LET n_years == in.transition_adj.operating_years
        base_cf == in.transition_adj.capacity_factor
        base_cf_series == [i \in 1..n_years |->
            IF in.market # None
            THEN RatMin(R(1), RatMul(base_cf,
                        get_demand_factor(in.market, in.start_year + i - 1, in.start_year)))
            ELSE base_cf]
    IN  [i \in 1..n_years |->
            RatMax(RatMin(RatMul(base_cf_series[i],
                                 RatAdd(R(1), in.physical_adj.capacity_derate)),
                          in.physical_adj.water_constrained_capacity),
                   R(0))]

\* A plausible slip: the floor at zero left out of the utilisation.
cf_series_unfloored(in) ==
    LET n_years == in.transition_adj.operating_years
        base_cf == in.transition_adj.capacity_factor
        base_cf_series == [i \in 1..n_years |->
            IF in.market # None
            THEN RatMin(R(1), RatMul(base_cf,
                        get_demand_factor(in.market, in.start_year + i - 1, in.start_year)))
            ELSE base_cf]
    IN  [i \in 1..n_years |->
            RatMin(RatMul(base_cf_series[i],
                          RatSub(R(1), in.physical_adj.capacity_derate)),
                   in.physical_adj.water_constrained_capacity)]

\* compute_cashflows_timeseries: the capacity factor of each year
cf_series(in) ==
    LET n_years == in.transition_adj.operating_years
        base_cf == in.transition_adj.capacity_factor
        base_cf_series == [i \in 1..n_years |->
            IF in.market # None
            THEN RatMin(R(1), RatMul(base_cf,
                        get_demand_factor(in.market, in.start_year + i - 1, in.start_year)))
            ELSE base_cf]
    IN  [i \in 1..n_years |->
            RatMax(RatMin(RatMul(base_cf_series[i],
                                 RatSub(R(1), in.physical_adj.capacity_derate)),
                          in.physical_adj.water_constrained_capacity),
                   R(0))]

\* A plausible slip: equal principal instalments plus first-year interest
\* instead of the annuity formula.
annuity_payment_simple(rate, nper, pv) ==
    RatAdd(RatDiv(pv, R(nper)), RatMul(pv, rate))

\* numpy_financial.pmt(rate, nper, pv), negated: the level annual payment.
annuity_payment(rate, nper, pv) ==
    IF rate[1] = 0 THEN RatDiv(pv, R(nper))
    ELSE LET temp == RatPow(RatAdd(R(1), rate), nper)
         IN  RatDiv(RatMul(pv, temp), RatDiv(RatSub(temp, R(1)), rate))

\* A plausible slip: an interest-only loan, the balance never reduced.
loan_balance_interest_only(debt_amount, debt_interest, annual_ds, i) == debt_amount

\* compute_cashflows_timeseries: the loan balance after i turns of the
\* amortization loop.
RECURSIVE loan_balance(_, _, _, _)
loan_balance(debt_amount, debt_interest, annual_ds, i) ==
    IF i = 0 THEN debt_amount
    ELSE LET balance == loan_balance(debt_amount, debt_interest, annual_ds, i - 1)
             interest == RatMul(balance, debt_interest)
             principal == RatSub(annual_ds, interest)
             after == RatSub(balance, principal)
         IN  IF RatLt(after, R(0)) THEN R(0) ELSE after

\* compute_cashflows_timeseries: the interest expense of each year
interest_expense_series(debt_amount, debt_interest, debt_tenor, n_years) ==
    [i \in 1..n_years |->
        IF RatGt(debt_interest, R(0)) /\ debt_tenor > 0 /\ i <= IntMin(n_years, debt_tenor)
        THEN RatMul(loan_balance(debt_amount, debt_interest,
                                 annuity_payment(debt_interest, debt_tenor, debt_amount),
                                 i - 1),
                    debt_interest)
        ELSE R(0)]

\* A plausible slip: EBITDA floored at zero.
ebitda_floored(revenue, total_costs) == RatMax(R(0), RatSub(revenue, total_costs))

ebitda_of(revenue, total_costs) == RatSub(revenue, total_costs)

\* A plausible slip: the tax charged on EBIT, interest not deducted.
taxable_income_no_shield(ebit, interest_expense) == ebit

taxable_income_of(ebit, interest_expense) == RatSub(ebit, interest_expense)

\* A plausible slip: a negative tax (a refund) on a loss.
tax_expense_unfloored(taxable_income, tax_rate) == RatMul(taxable_income, tax_rate)

tax_expense_of(taxable_income, tax_rate) ==
    RatMax(R(0), RatMul(taxable_income, tax_rate))

compute_cashflows_timeseries(in) ==
    LET p == in.plant
        total_capex == RatMul(p.total_capex_million, R(1000000))
        n_years == in.transition_adj.operating_years
        idx == 1..n_years
        years == [i \in idx |-> in.start_year + i - 1]
        capacity_factor == cf_series(in)
        annual_mwh == [i \in idx |->
            RatMul(RatMul(p.capacity_mw, R(8760)), capacity_factor[i])]
        prices == [i \in idx |->
            IF in.market # None
            THEN get_power_price(in.market, years[i], in.start_year)
            ELSE p.power_price_per_mwh]
        revenue == [i \in idx |-> RatMul(annual_mwh[i], prices[i])]
        carbon_prices == [i \in idx |-> get_carbon_price(in.scenario, years[i])]
        fuel_costs == [i \in idx |->
            RatMul(RatMul(annual_mwh[i], p.heat_rate_mmbtu_mwh), p.fuel_price_per_mmbtu)]
        variable_opex == [i \in idx |-> RatMul(annual_mwh[i], p.variable_opex_per_mwh)]
        fixed_opex == [i \in idx |->
            RatMul(RatMul(p.capacity_mw, R(1000)), p.fixed_opex_per_kw_year)]
        carbon_costs == [i \in idx |->
            RatMul(RatMul(annual_mwh[i], p.emissions_tCO2_per_mwh), carbon_prices[i])]
        outage_costs == [i \in idx |->
            RatMul(RatMul(annual_mwh[i], in.physical_adj.outage_rate), p.power_price_per_mwh)]
        total_costs == [i \in idx |->
            RatAdd(RatAdd(RatAdd(RatAdd(fuel_costs[i], variable_opex[i]), fixed_opex[i]),
                          carbon_costs[i]), outage_costs[i])]
        ebitda == [i \in idx |-> ebitda_of(revenue[i], total_costs[i])]
        depreciation == [i \in idx |-> RatDiv(total_capex, R(p.useful_life))]
        ebit == [i \in idx |-> RatSub(ebitda[i], depreciation[i])]
        debt_amount == RatMul(total_capex, p.debt_fraction)
        interest_expense ==
            interest_expense_series(debt_amount, p.debt_interest_rate,
                                    p.debt_tenor_years, n_years)
        taxable_income == [i \in idx |-> taxable_income_of(ebit[i], interest_expense[i])]
        tax_expense == [i \in idx |-> tax_expense_of(taxable_income[i], p.tax_rate)]
        net_income == [i \in idx |->
            RatSub(RatSub(ebit[i], interest_expense[i]), tax_expense[i])]
        nopat == [i \in idx |-> RatMul(ebit[i], RatSub(R(1), p.tax_rate))]
        capex == [i \in idx |-> R(0)]
        fcf == [i \in idx |-> RatSub(RatAdd(nopat[i], depreciation[i]), capex[i])]
    IN  [kind |-> "cashflow",
         years |-> years,
         revenue |-> revenue,
         fuel_costs |-> fuel_costs,
         variable_opex |-> variable_opex,
         fixed_opex |-> fixed_opex,
         carbon_costs |-> carbon_costs,
         outage_costs |-> outage_costs,
         total_costs |-> total_costs,
         ebitda |-> ebitda,
         depreciation |-> depreciation,
         ebit |-> ebit,
         interest_expense |-> interest_expense,
         tax_expense |-> tax_expense,
         net_income |-> net_income,
         capex |-> capex,
         free_cash_flow |-> fcf,
         capacity_factor |-> capacity_factor]

\* The largest operating life (years) of a modelled cash-flow run.
MaxYears == 3

\* The longest loan tenor (years) of a modelled debt schedule.
MaxTenor == 3

\* The worked example: 1000 MW at capacity factor 0.5 and $100/MWh, no
\* fuel, O&M, carbon or outage cost, CAPEX $1B over 20 years, 50% debt at
\* 5% over 10 years, 25% tax.
ExampleCashInput ==
    [kind |-> "cf_in",
     plant |-> [capacity_mw |-> R(1000), power_price_per_mwh |-> R(100),
                heat_rate_mmbtu_mwh |-> R(0), fuel_price_per_mmbtu |-> R(0),
                fixed_opex_per_kw_year |-> R(0), variable_opex_per_mwh |-> R(0),
                emissions_tCO2_per_mwh |-> R(0), total_capex_million |-> R(1000),
                useful_life |-> 20, tax_rate |-> <<1, 4>>,
                debt_fraction |-> <<1, 2>>, debt_interest_rate |-> <<1, 20>>,
                debt_tenor_years |-> 10],
     scenario |-> [carbon_price_2025 |-> R(0), carbon_price_2030 |-> R(0),
                   carbon_price_2040 |-> R(0), carbon_price_2050 |-> R(0)],
     transition_adj |-> [capacity_factor |-> <<1, 2>>, operating_years |-> 1],
     physical_adj |-> [outage_rate |-> R(0), capacity_derate |-> R(0),
                       water_constrained_capacity |-> R(1)],
     market |-> None,
     start_year |-> 2025]

PlantInputs ==
    {[capacity_mw |-> R(1), power_price_per_mwh |-> R(80),
      heat_rate_mmbtu_mwh |-> R(10), fuel_price_per_mmbtu |-> R(3),
      fixed_opex_per_kw_year |-> fo, variable_opex_per_mwh |-> R(5),
      emissions_tCO2_per_mwh |-> R(1), total_capex_million |-> <<21, 50>>,
      useful_life |-> 20, tax_rate |-> tr,
      debt_fraction |-> <<1, 2>>, debt_interest_rate |-> loan[1],
      debt_tenor_years |-> loan[2]] :
        fo \in {R(0), R(400)}, tr \in {R(0), <<1, 4>>},
        loan \in {<<R(0), 2>>, <<<<1, 10>>, 0>>, <<<<1, 10>>, 1>>, <<<<1, 10>>, 2>>}}

ScenarioInputs ==
    {[carbon_price_2025 |-> R(0), carbon_price_2030 |-> R(0),
      carbon_price_2040 |-> R(0), carbon_price_2050 |-> R(0)],
     [carbon_price_2025 |-> R(40), carbon_price_2030 |-> R(90),
      carbon_price_2040 |-> R(150), carbon_price_2050 |-> R(200)]}

MarketInputs ==
    {None,
     [demand_growth_pct |-> R(100), price_sensitivity |-> <<1, 2>>,
      base_power_price |-> R(80)],
     [demand_growth_pct |-> R(-50), price_sensitivity |-> <<1, 2>>,
      base_power_price |-> R(80)]}

OutageInputs == {R(0), <<1, 4>>}

\* drought_derate is not bounded by the code: 3/2 stands for a derate over 1.
DerateInputs == {R(0), <<1, 2>>, <<3, 2>>}

CashInputs ==
    [kind : {"cf_in"},
     plant : PlantInputs,
     scenario : ScenarioInputs,
     transition_adj : [capacity_factor : {R(0), <<1, 2>>, R(1)},
                       operating_years : 1..MaxYears],
     physical_adj : [outage_rate : OutageInputs,
                     capacity_derate : DerateInputs,
                     water_constrained_capacity : {R(1), <<1, 4>>}],
     market : MarketInputs,
     start_year : {2025}]
    \cup {ExampleCashInput}

InitCash ==
    /\ RatingIdle
    /\ DebtIdle
    /\ ExtIdle
    /\ cf_in \in CashInputs
    /\ cashflow = None
    /\ cash_prev = None

ComputeCashflowsTimeseries ==
    /\ cf_in # None
    /\ cashflow = None
    /\ cashflow' = compute_cashflows_timeseries(cf_in)
    /\ UNCHANGED <<cf_in, cash_prev, rating_vars, debt_vars, ext_vars>>

\* compute_cashflows_timeseries called again for the same plant, scenario,
\* transition adjustment and market path with another capacity derate and
\* outage rate.
ComputeWithPhysical(derate, outage) ==
    /\ cashflow # None
    /\ cash_prev = None
    /\ <<derate, outage>> #
           <<cf_in.physical_adj.capacity_derate, cf_in.physical_adj.outage_rate>>
    /\ cash_prev' = [kind |-> "cash_prev",
                     physical_adj |-> cf_in.physical_adj,
                     capacity_factor |-> cashflow.capacity_factor]
    /\ cf_in' = [cf_in EXCEPT !.physical_adj.capacity_derate = derate,
                              !.physical_adj.outage_rate = outage]
    /\ cashflow' = compute_cashflows_timeseries(cf_in')
    /\ UNCHANGED <<rating_vars, debt_vars, ext_vars>>

NextCash ==
    \/ ComputeCashflowsTimeseries
    \/ \E derate \in DerateInputs, outage \in OutageInputs :
          ComputeWithPhysical(derate, outage)

SpecCash == InitCash /\ [][NextCash]_vars

----------------------------------------------------------------------------
(* Debt service schedule: src/financials/metrics.py                        *)

\* calculate_debt_service: the balance after i turns of the schedule loop
RECURSIVE schedule_balance(_, _, _, _)
schedule_balance(debt_amount, interest_rate, annual_ds, i) ==
    IF i = 0 THEN debt_amount
    ELSE LET balance == schedule_balance(debt_amount, interest_rate, annual_ds, i - 1)
             interest == RatMul(balance, interest_rate)
             principal == RatSub(annual_ds, interest)
         IN  RatSub(balance, principal)

calculate_debt_service(total_capex, debt_fraction, interest_rate, tenor_years) ==
    LET debt_amount == RatMul(total_capex, debt_fraction)
        annual_ds == annuity_payment(interest_rate, tenor_years, debt_amount)
        interest == [i \in 1..tenor_years |->
            RatMul(schedule_balance(debt_amount, interest_rate, annual_ds, i - 1),
                   interest_rate)]
        principal == [i \in 1..tenor_years |-> RatSub(annual_ds, interest[i])]
    IN  [kind |-> "debt",
         debt_amount |-> debt_amount,
         interest_rate |-> interest_rate,
         tenor_years |-> tenor_years,
         annual_debt_service |-> annual_ds,
         principal_schedule |-> principal,
         interest_schedule |-> interest]

DebtInputs ==
    [kind : {"debt_in"},
     total_capex : {R(1000), R(1600)},
     debt_fraction : {R(0), <<1, 2>>, <<7, 10>>, R(1)},
     interest_rate : {R(0), <<1, 10>>, <<1, 2>>},
     tenor_years : 1..MaxTenor]

InitDebt ==
    /\ RatingIdle
    /\ CashIdle
    /\ ExtIdle
    /\ debt_in \in DebtInputs
    /\ debt_struct = None

CalculateDebtService ==
    /\ debt_in # None
    /\ debt_struct = None
    /\ debt_struct' = calculate_debt_service(debt_in.total_capex, debt_in.debt_fraction,
                                             debt_in.interest_rate, debt_in.tenor_years)
    /\ UNCHANGED <<debt_in, rating_vars, cash_vars, ext_vars>>

NextDebt == CalculateDebtService

SpecDebt == InitDebt /\ [][NextDebt]_vars

----------------------------------------------------------------------------
(* Financing cost and climate risk premium: src/risk/financing.py          *)

\* Rating.to_spread_bps
to_spread_bps(r) ==
    CASE r = AAA -> R(50)
      [] r = AA -> R(100)
      [] r = A -> R(150)
      [] r = BBB -> R(250)
      [] r = BB -> R(400)
      [] r = B -> R(600)
      [] r = CCC -> R(900)
      [] r = CC -> R(1500)
      [] r = C -> R(2500)
      [] r = D -> R(5000)

\* The equity return every calculator starts from (12%).
baseline_equity_rate == <<3, 25>>

\* debt_fraction x debt rate + equity_fraction x equity rate
wacc_of(params, debt_rate, equity_rate) ==
    RatAdd(RatMul(params.debt_fraction, debt_rate),
           RatMul(params.equity_fraction, equity_rate))

\* A plausible slip: the WACC difference scaled to percent, not basis points.
crp_in_percent(wacc_adjusted, wacc_baseline) ==
    RatMul(RatSub(wacc_adjusted, wacc_baseline), R(100))

\* crp = (wacc_adjusted - wacc_baseline) * 10000
crp_of(wacc_adjusted, wacc_baseline) ==
    RatMul(RatSub(wacc_adjusted, wacc_baseline), R(10000))

\* expected_loss_pct of calculate_financing_from_rating and
\* calculate_financing_with_counterfactual
reported_expected_loss_pct(npv_loss, total_capex) ==
    IF RatGt(total_capex, R(0))
    THEN RatMax(R(0), RatMul(RatDiv(npv_loss, total_capex), R(100)))
    ELSE R(0)

FinancingImpact(expected_loss_pct, npv_loss, debt_spread, equity_premium_pct, crp, wacc_baseline, wacc_adjusted) ==
    [kind |-> "financing",
     expected_loss_pct |-> expected_loss_pct,
     npv_loss_million |-> RatDiv(npv_loss, R(1000000)),
     debt_spread_bps |-> debt_spread,
     equity_premium_pct |-> equity_premium_pct,
     crp_bps |-> crp,
     wacc_baseline_pct |-> RatMul(wacc_baseline, R(100)),
     wacc_adjusted_pct |-> RatMul(wacc_adjusted, R(100))]

map_expected_loss_to_spreads(expected_loss_pct, npv_loss, params, rating_spread_bps) ==
    LET baseline_debt_rate ==
            RatAdd(params.risk_free_rate, RatDiv(params.baseline_spread_bps, R(10000)))
        debt_spread ==
            IF rating_spread_bps # PyNone THEN rating_spread_bps
            ELSE RatAdd(params.baseline_spread_bps,
                        RatMul(expected_loss_pct, params.spread_slope_bps_per_pct))
        adjusted_debt_rate == RatAdd(params.risk_free_rate, RatDiv(debt_spread, R(10000)))
        equity_premium_pct == RatMul(expected_loss_pct, params.equity_slope_pct_per_pct)
        adjusted_equity_rate ==
            RatAdd(baseline_equity_rate, RatDiv(equity_premium_pct, R(100)))
        wacc_baseline == wacc_of(params, baseline_debt_rate, baseline_equity_rate)
        wacc_adjusted == wacc_of(params, adjusted_debt_rate, adjusted_equity_rate)
    IN  FinancingImpact(expected_loss_pct, npv_loss, debt_spread, equity_premium_pct,
                        crp_of(wacc_adjusted, wacc_baseline), wacc_baseline, wacc_adjusted)

calculate_financing_from_rating(rating_spread_bps, baseline_spread_bps, npv_loss, total_capex, params) ==
    LET expected_loss_pct == reported_expected_loss_pct(npv_loss, total_capex)
        adjusted_debt_rate ==
            RatAdd(params.risk_free_rate, RatDiv(rating_spread_bps, R(10000)))
        baseline_debt_rate ==
            RatAdd(params.risk_free_rate, RatDiv(baseline_spread_bps, R(10000)))
        equity_premium_pct == RatMul(expected_loss_pct, params.equity_slope_pct_per_pct)
        adjusted_equity_rate ==
            RatAdd(baseline_equity_rate, RatDiv(equity_premium_pct, R(100)))
        wacc_baseline == wacc_of(params, baseline_debt_rate, baseline_equity_rate)
        wacc_adjusted == wacc_of(params, adjusted_debt_rate, adjusted_equity_rate)
    IN  FinancingImpact(expected_loss_pct, npv_loss, rating_spread_bps, equity_premium_pct,
                        crp_of(wacc_adjusted, wacc_baseline), wacc_baseline, wacc_adjusted)

calculate_financing_with_counterfactual(scenario_spread_bps, counterfactual_spread_bps, npv_loss, total_capex, params, scenario_notch, counterfactual_notch) ==
    LET expected_loss_pct == reported_expected_loss_pct(npv_loss, total_capex)
        counterfactual_debt_rate ==
            RatAdd(params.risk_free_rate, RatDiv(counterfactual_spread_bps, R(10000)))
        scenario_debt_rate ==
            RatAdd(params.risk_free_rate, RatDiv(scenario_spread_bps, R(10000)))
        equity_premium_per_notch == <<1, 200>>
        notch_diff == scenario_notch - counterfactual_notch
        equity_premium_pct ==
            RatMul(R(notch_diff), RatMul(equity_premium_per_notch, R(100)))
        scenario_equity_rate ==
            RatAdd(baseline_equity_rate, RatDiv(equity_premium_pct, R(100)))
        wacc_counterfactual ==
            wacc_of(params, counterfactual_debt_rate, baseline_equity_rate)
        wacc_scenario == wacc_of(params, scenario_debt_rate, scenario_equity_rate)
    IN  FinancingImpact(expected_loss_pct, npv_loss, scenario_spread_bps,
                        equity_premium_pct,
                        crp_of(wacc_scenario, wacc_counterfactual),
                        wacc_counterfactual, wacc_scenario)

FinancingParams ==
    [spread_slope_bps_per_pct : {R(50)},
     equity_slope_pct_per_pct : {<<4, 5>>},
     baseline_spread_bps : {R(150)},
     risk_free_rate : {<<3, 100>>, <<1, 20>>},
     debt_fraction : {R(0), <<7, 10>>},
     equity_fraction : {R(0), <<3, 10>>}]

FinancingInputs ==
    [kind : {"map_expected_loss_to_spreads"},
     expected_loss_pct : {R(-4), R(0), R(10)},
     npv_loss : {R(0), R(300000000)},
     rating_spread_bps : {PyNone, R(150), R(600)},
     params : FinancingParams]
    \cup
    [kind : {"calculate_financing_from_rating"},
     rating_spread_bps : {to_spread_bps(r) : r \in {A, BBB, D}},
     baseline_spread_bps : {to_spread_bps(r) : r \in {A, BBB}},
     npv_loss : {R(-100000000), R(0), R(100000000)},
     total_capex : {R(0), R(1000000000)},
     params : FinancingParams]
    \cup
    [kind : {"calculate_financing_with_counterfactual"},
     scenario_rating : Rating,
     counterfactual_rating : {AAA, A, B},
     npv_loss : {R(0), R(100000000)},
     total_capex : {R(1000000000)},
     params : FinancingParams]

InitFinancing ==
    /\ RatingIdle
    /\ CashIdle
    /\ DebtIdle
    /\ HazardIdle
    /\ ProbIdle
    /\ RunnerIdle
    /\ CarbonIdle
    /\ fi_in \in FinancingInputs
    /\ fi_out = None

MapExpectedLossToSpreads ==
    /\ fi_in.kind = "map_expected_loss_to_spreads"
    /\ fi_out = None
    /\ fi_out' = map_expected_loss_to_spreads(fi_in.expected_loss_pct, fi_in.npv_loss,
                                               fi_in.params, fi_in.rating_spread_bps)
    /\ UNCHANGED <<fi_in, core_vars, carbon_vars, hazard_vars, prob_vars, runner_vars>>

CalculateFinancingFromRating ==
    /\ fi_in.kind = "calculate_financing_from_rating"
    /\ fi_out = None
    /\ fi_out' = calculate_financing_from_rating(fi_in.rating_spread_bps,
                                                  fi_in.baseline_spread_bps, fi_in.npv_loss,
                                                  fi_in.total_capex, fi_in.params)
    /\ UNCHANGED <<fi_in, core_vars, carbon_vars, hazard_vars, prob_vars, runner_vars>>

\* Called as run_multi_scenario calls it: spread and notch of the same rating.
CalculateFinancingWithCounterfactual ==
    /\ fi_in.kind = "calculate_financing_with_counterfactual"
    /\ fi_out = None
    /\ fi_out' = calculate_financing_with_counterfactual(
                      to_spread_bps(fi_in.scenario_rating),
                      to_spread_bps(fi_in.counterfactual_rating),
                      fi_in.npv_loss, fi_in.total_capex, fi_in.params,
                      fi_in.scenario_rating, fi_in.counterfactual_rating)
    /\ UNCHANGED <<fi_in, core_vars, carbon_vars, hazard_vars, prob_vars, runner_vars>>

NextFinancing ==
    \/ MapExpectedLossToSpreads
    \/ CalculateFinancingFromRating
    \/ CalculateFinancingWithCounterfactual

SpecFinancing == InitFinancing /\ [][NextFinancing]_vars

----------------------------------------------------------------------------
(* CLIMADA hazard data: src/climada/hazards.py                             *)

CLIMADAHazardData(wildfire_outage_rate, flood_outage_rate, slr_capacity_derate, compound_multiplier) ==
    [kind |-> "hazard",
     wildfire_outage_rate |-> wildfire_outage_rate,
     flood_outage_rate |-> flood_outage_rate,
     slr_capacity_derate |-> slr_capacity_derate,
     compound_multiplier |-> compound_multiplier]

total_outage_rate(h) ==
    LET base_outage == RatAdd(h.wildfire_outage_rate, h.flood_outage_rate)
    IN  RatMin(R(1), RatMul(base_outage, h.compound_multiplier))

\* A plausible slip: the cap at 1.0 left out of the derate.
total_capacity_derate_uncapped(h) ==
    RatMul(h.slr_capacity_derate, h.compound_multiplier)

total_capacity_derate(h) ==
    RatMin(R(1), RatMul(h.slr_capacity_derate, h.compound_multiplier))

effective_capacity_factor_multiplier(h) ==
    RatMul(RatSub(R(1), total_capacity_derate(h)), RatSub(R(1), total_outage_rate(h)))

\* CLIMADAHazardData.to_dict: the fields and the three derived properties
to_dict(h) ==
    [kind |-> "hazard_dict",
     wildfire_outage_rate |-> h.wildfire_outage_rate,
     flood_outage_rate |-> h.flood_outage_rate,
     slr_capacity_derate |-> h.slr_capacity_derate,
     compound_multiplier |-> h.compound_multiplier,
     total_outage_rate |-> total_outage_rate(h),
     total_capacity_derate |-> total_capacity_derate(h),
     effective_cf_multiplier |-> effective_capacity_factor_multiplier(h)]

\* calculate_compound_risk with interaction_factor left at its default 1.2
calculate_compound_risk(wildfire_outage, flood_outage, slr_derate) ==
    CLIMADAHazardData(wildfire_outage, flood_outage, slr_derate, <<6, 5>>)

HazardInputs ==
    [kind : {"row"},
     wildfire_outage_rate : {R(0), <<1, 20>>, <<3, 5>>},
     flood_outage_rate : {R(0), <<1, 50>>, <<3, 5>>},
     slr_capacity_derate : {R(0), <<1, 20>>, <<9, 10>>},
     compound_multiplier : {R(1), <<6, 5>>, R(2)}]
    \cup
    [kind : {"calculate_compound_risk"},
     wildfire_outage : {R(0), <<1, 200>>, <<1, 20>>},
     flood_outage : {R(0), <<1, 1000>>, <<1, 50>>},
     slr_derate : {R(0), <<1, 20>>}]

InitHazard ==
    /\ RatingIdle
    /\ CashIdle
    /\ DebtIdle
    /\ FinancingIdle
    /\ ProbIdle
    /\ RunnerIdle
    /\ CarbonIdle
    /\ hazard_in \in HazardInputs
    /\ hazard = None
    /\ hazard_dict = None

\* load_climada_hazards: one row of the hazard table
LoadClimadaHazard ==
    /\ hazard_in.kind = "row"
    /\ hazard = None
    /\ hazard' = CLIMADAHazardData(hazard_in.wildfire_outage_rate,
                                    hazard_in.flood_outage_rate,
                                    hazard_in.slr_capacity_derate,
                                    hazard_in.compound_multiplier)
    /\ UNCHANGED <<hazard_in, hazard_dict, core_vars, carbon_vars, financing_vars, prob_vars, runner_vars>>

CalculateCompoundRisk ==
    /\ hazard_in.kind = "calculate_compound_risk"
    /\ hazard = None
    /\ hazard' = calculate_compound_risk(hazard_in.wildfire_outage, hazard_in.flood_outage,
                                          hazard_in.slr_derate)
    /\ UNCHANGED <<hazard_in, hazard_dict, core_vars, carbon_vars, financing_vars, prob_vars, runner_vars>>

HazardToDict ==
    /\ hazard # None
    /\ hazard_dict = None
    /\ hazard_dict' = to_dict(hazard)
    /\ UNCHANGED <<hazard_in, hazard, core_vars, carbon_vars, financing_vars, prob_vars, runner_vars>>

NextHazard == LoadClimadaHazard \/ CalculateCompoundRisk \/ HazardToDict

SpecHazard == InitHazard /\ [][NextHazard]_vars

----------------------------------------------------------------------------
(* Probabilistic hazard engine: src/climada/probabilistic_risk.py          *)

HazardEvent(intensity, annual_probability, duration_days) ==
    [intensity |-> intensity, annual_probability |-> annual_probability,
     duration_days |-> duration_days]

\* _load_damage_functions: the curve points, in ascending order of intensity
damage_functions ==
    [flood |-> <<<<R(0), R(0)>>, <<<<3, 10>>, <<1, 20>>>>, <<<<3, 5>>, <<3, 20>>>>,
                 <<R(1), <<3, 10>>>>, <<<<3, 2>>, <<1, 2>>>>, <<R(2), <<7, 10>>>>,
                 <<R(3), <<9, 10>>>>, <<<<9, 2>>, R(1)>>>>,
     wildfire |-> <<<<R(0), R(0)>>, <<R(20), <<1, 100>>>>, <<R(30), <<3, 100>>>>,
                    <<R(40), <<3, 50>>>>, <<R(50), <<1, 10>>>>, <<R(60), <<3, 20>>>>,
                    <<R(80), <<1, 4>>>>>>,
     heat_wave |-> <<<<R(0), R(0)>>, <<R(5), <<3, 200>>>>, <<R(10), <<7, 200>>>>,
                     <<R(15), <<3, 50>>>>, <<R(20), <<1, 10>>>>>>,
     sea_level_rise |-> <<<<R(0), R(0)>>, <<<<1, 10>>, <<1, 200>>>>,
                          <<<<3, 10>>, <<3, 200>>>>, <<<<1, 2>>, <<3, 100>>>>,
                          <<R(1), <<3, 50>>>>, <<<<3, 2>>, <<1, 10>>>>>>]

\* _generate_hazard_scenarios
hazard_scenarios ==
    [flood |->
        <<HazardEvent(R(0), <<1, 2>>, R(0)), HazardEvent(<<3, 10>>, <<1, 5>>, R(3)),
          HazardEvent(<<3, 5>>, <<1, 10>>, R(5)), HazardEvent(R(1), <<1, 25>>, R(7)),
          HazardEvent(<<3, 2>>, <<1, 50>>, R(10)), HazardEvent(R(2), <<1, 100>>, R(14)),
          HazardEvent(R(3), <<1, 250>>, R(21)), HazardEvent(R(4), <<1, 500>>, R(30))>>,
     wildfire |->
        <<HazardEvent(R(20), <<3, 5>>, R(0)), HazardEvent(R(30), <<1, 5>>, R(3)),
          HazardEvent(R(40), <<1, 10>>, R(5)), HazardEvent(R(50), <<1, 20>>, R(7)),
          HazardEvent(R(60), <<3, 100>>, R(10)), HazardEvent(R(80), <<1, 100>>, R(14))>>,
     heat_wave |->
        <<HazardEvent(R(0), <<1, 2>>, R(0)), HazardEvent(R(5), <<1, 4>>, R(14)),
          HazardEvent(R(10), <<3, 20>>, R(7)), HazardEvent(R(15), <<7, 100>>, R(5)),
          HazardEvent(R(20), <<3, 100>>, R(3))>>]

\* DamageFunction.get_damage on the sorted curve points
get_damage(curve, intensity) ==
    LET n == Len(curve)
        within(i) == RatLe(curve[i][1], intensity) /\ RatLe(intensity, curve[i + 1][1])
    IN  IF RatLe(intensity, curve[1][1]) THEN curve[1][2]
        ELSE IF RatGe(intensity, curve[n][1]) THEN curve[n][2]
        ELSE LET i == CHOOSE k \in 1..(n - 1) :
                          within(k) /\ \A j \in 1..(k - 1) : ~within(j)
                 weight == RatDiv(RatSub(intensity, curve[i][1]),
                                  RatSub(curve[i + 1][1], curve[i][1]))
             IN  RatAdd(curve[i][2], RatMul(weight, RatSub(curve[i + 1][2], curve[i][2])))

\* _get_climate_adjustment
get_climate_adjustment(hazard_type, year, rcp_scenario) ==
    LET years_from_baseline == IntMax(0, year - 2024)
        rate ==
            IF rcp_scenario = "RCP8.5"
            THEN CASE hazard_type = "flood" -> <<1, 50>>
                   [] hazard_type = "wildfire" -> <<1, 40>>
                   [] hazard_type = "heat_wave" -> <<3, 100>>
                   [] OTHER -> <<1, 100>>
            ELSE CASE hazard_type = "flood" -> <<1, 100>>
                   [] hazard_type = "wildfire" -> <<3, 200>>
                   [] hazard_type = "heat_wave" -> <<3, 200>>
                   [] hazard_type = "sea_level_rise" -> <<1, 200>>
                   [] OTHER -> <<1, 100>>
    IN  RatAdd(R(1), RatMul(rate, R(years_from_baseline)))

\* A plausible slip: the first loss returned when the mass is never reached.
RECURSIVE pml_scan_fallback_first(_, _, _, _)
pml_scan_fallback_first(loss_dist, threshold, i, cumulative_prob) ==
    IF i > Len(loss_dist)
    THEN IF Len(loss_dist) > 0 THEN loss_dist[1][2] ELSE R(0)
    ELSE LET cumulative == RatAdd(cumulative_prob, loss_dist[i][1])
         IN  IF RatGe(cumulative, threshold) THEN loss_dist[i][2]
             ELSE pml_scan_fallback_first(loss_dist, threshold, i + 1, cumulative)

\* _get_pml: the loop over the loss distribution from its i-th pair on
RECURSIVE pml_scan(_, _, _, _)
pml_scan(loss_dist, threshold, i, cumulative_prob) ==
    IF i > Len(loss_dist)
    THEN IF Len(loss_dist) > 0 THEN loss_dist[Len(loss_dist)][2] ELSE R(0)
    ELSE LET cumulative == RatAdd(cumulative_prob, loss_dist[i][1])
         IN  IF RatGe(cumulative, threshold) THEN loss_dist[i][2]
             ELSE pml_scan(loss_dist, threshold, i + 1, cumulative)

\* A plausible slip: the exceedance probability taken for the mass to reach.
get_pml_at_exceedance(loss_dist, exceedance_prob) ==
    pml_scan(loss_dist, exceedance_prob, 1, R(0))

get_pml(loss_dist, exceedance_prob) ==
    pml_scan(loss_dist, RatSub(R(1), exceedance_prob), 1, R(0))

\* sorted(pairs, key=loss): a stable sort in ascending order of loss
RECURSIVE sorted_by_loss(_)
sorted_by_loss(pairs) ==
    IF Len(pairs) <= 1 THEN pairs
    ELSE LET head == sorted_by_loss(SubSeq(pairs, 1, Len(pairs) - 1))
             x == pairs[Len(pairs)]
             before == SelectSeq(head, LAMBDA y : RatLe(y[2], x[2]))
             after == SelectSeq(head, LAMBDA y : RatGt(y[2], x[2]))
         IN  before \o <<x>> \o after

RECURSIVE RatSum(_)
RatSum(xs) == IF Len(xs) = 0 THEN R(0) ELSE RatAdd(RatSum(SubSeq(xs, 1, Len(xs) - 1)), xs[Len(xs)])

AnnualRiskResult(hazard_type, eal, ead, loss_dist, pml_100yr, pml_250yr) ==
    [kind |-> "annual_risk",
     hazard_type |-> hazard_type,
     expected_annual_loss |-> eal,
     expected_annual_outage_days |-> ead,
     loss_distribution |-> loss_dist,
     pml_100yr |-> pml_100yr,
     pml_250yr |-> pml_250yr]

calculate_annual_risk(engine, hazard_type, year, rcp_scenario) ==
    IF hazard_type \notin DOMAIN engine.hazard_scenarios
    THEN AnnualRiskResult(hazard_type, R(0), R(0), <<>>, R(0), R(0))
    ELSE IF hazard_type \notin DOMAIN damage_functions
    THEN AnnualRiskResult(hazard_type, R(0), R(0), <<>>, R(0), R(0))
    ELSE
    LET scenarios == engine.hazard_scenarios[hazard_type]
        climate_factor == get_climate_adjustment(hazard_type, year, rcp_scenario)
        idx == 1..Len(scenarios)
        damage_fraction == [i \in idx |->
            get_damage(damage_functions[hazard_type],
                       RatMul(scenarios[i].intensity, climate_factor))]
        losses == [i \in idx |-> RatMul(damage_fraction[i], engine.annual_revenue_usd)]
        outage_days == [i \in idx |->
            RatDiv(RatMul(RatMul(scenarios[i].duration_days, damage_fraction[i]), R(365)),
                   R(100))]
        eal == RatSum([i \in idx |-> RatMul(scenarios[i].annual_probability, losses[i])])
        ead == RatSum([i \in idx |-> RatMul(scenarios[i].annual_probability, outage_days[i])])
        loss_dist == sorted_by_loss([i \in idx |->
            <<scenarios[i].annual_probability, losses[i]>>])
    IN  AnnualRiskResult(hazard_type, eal, ead, loss_dist,
                         get_pml(loss_dist, <<1, 100>>), get_pml(loss_dist, <<1, 250>>))

\* AnnualRiskResult.eal_rate
eal_rate(r) ==
    LET n == Len(r.loss_distribution)
    IN  IF n > 0 /\ RatGt(r.loss_distribution[n][2], R(0))
        THEN LET max_loss == r.loss_distribution[
                    CHOOSE i \in 1..n : \A j \in 1..n :
                        RatLe(r.loss_distribution[j][2], r.loss_distribution[i][2])][2]
             IN  IF RatGt(max_loss, R(0)) THEN RatDiv(r.expected_annual_loss, max_loss)
                 ELSE R(0)
        ELSE R(0)

\* A plausible slip: the system stress capped at 2 rather than at 1.
stress_factor_capped_at_two(stress) == RatMin(R(2), RatMul(stress, R(10)))

stress_factor_of(stress) == RatMin(R(1), RatMul(stress, R(10)))

\* ProbabilisticRiskEngine.calculate_compound_risk
engine_compound_risk(engine, year, rcp_scenario) ==
    LET flood == calculate_annual_risk(engine, "flood", year, rcp_scenario)
        wildfire == calculate_annual_risk(engine, "wildfire", year, rcp_scenario)
        heat_wave == calculate_annual_risk(engine, "heat_wave", year, rcp_scenario)
        total_individual_eal ==
            RatAdd(RatAdd(flood.expected_annual_loss, wildfire.expected_annual_loss),
                   heat_wave.expected_annual_loss)
        total_individual_days ==
            RatAdd(RatAdd(flood.expected_annual_outage_days,
                          wildfire.expected_annual_outage_days),
                   heat_wave.expected_annual_outage_days)
        base_multiplier == <<6, 5>>
        max_multiplier == R(2)
        stress == RatAdd(RatAdd(eal_rate(flood), eal_rate(wildfire)), eal_rate(heat_wave))
        compound_multiplier ==
            RatAdd(base_multiplier,
                   RatMul(RatSub(max_multiplier, base_multiplier), stress_factor_of(stress)))
    IN  [kind |-> "compound_risk",
         total_eal_individual |-> total_individual_eal,
         total_eal_compound |-> RatMul(total_individual_eal, compound_multiplier),
         compound_multiplier |-> compound_multiplier,
         total_outage_days_individual |-> total_individual_days,
         total_outage_days_compound |-> RatMul(total_individual_days, compound_multiplier),
         flood_eal |-> flood.expected_annual_loss,
         wildfire_eal |-> wildfire.expected_annual_loss,
         heat_wave_eal |-> heat_wave.expected_annual_loss,
         flood_pml_100yr |-> flood.pml_100yr,
         wildfire_pml_100yr |-> wildfire.pml_100yr]

\* The longest loss distribution handed to _get_pml on its own.
MaxEvents == 3

HazardTypes == {"flood", "wildfire", "heat_wave", "sea_level_rise", "drought"}

\* The engine as constructed, and engines whose hazard_scenarios were
\* replaced: a drought alone (no damage function), a single minor flood, and
\* a flood that does no damage.
EngineInputs ==
    [annual_revenue_usd : {R(1000000)},
     hazard_scenarios :
        {hazard_scenarios,
         [drought |-> <<HazardEvent(R(1), <<1, 10>>, R(5))>>],
         [flood |-> <<HazardEvent(R(0), <<1, 2>>, R(0)),
                      HazardEvent(<<3, 10>>, <<1, 50>>, R(3))>>],
         [flood |-> <<HazardEvent(R(0), R(1), R(0))>>,
          drought |-> <<HazardEvent(R(1), <<1, 10>>, R(5))>>]}]

\* Loss distributions as calculate_annual_risk builds them: (probability,
\* loss) pairs in ascending order of loss.
LossDistInputs ==
    LET pairs == {1, 2, 5} \X {0, 10, 20}
        seqs == UNION {[1..n -> pairs] : n \in 0..MaxEvents}
    IN  {[i \in DOMAIN q |-> <<Norm(q[i][1], 10), R(q[i][2])>>] :
            q \in {x \in seqs : \A i \in 1..(Len(x) - 1) : x[i][2] <= x[i + 1][2]}}

\* The exceedance probabilities of the 250-year and the 100-year loss, and
\* one half.
ExceedanceProbs == {<<1, 250>>, <<1, 100>>, <<1, 2>>}

ProbInputs ==
    [kind : {"calculate_compound_risk"},
     engine : EngineInputs, year : {2020, 2024, 2034, 2050},
     rcp_scenario : {"RCP4.5", "RCP8.5"}]
    \cup
    [kind : {"calculate_annual_risk"},
     engine : EngineInputs, hazard_type : HazardTypes, year : {2024, 2050},
     rcp_scenario : {"RCP4.5", "RCP8.5"}]
    \cup
    [kind : {"get_pml"},
     loss_dist : LossDistInputs,
     exceedance_prob : ExceedanceProbs]

InitProb ==
    /\ RatingIdle
    /\ CashIdle
    /\ DebtIdle
    /\ FinancingIdle
    /\ HazardIdle
    /\ RunnerIdle
    /\ CarbonIdle
    /\ pr_in \in ProbInputs
    /\ pr_out = None

EngineCalculateCompoundRisk ==
    /\ pr_in.kind = "calculate_compound_risk"
    /\ pr_out = None
    /\ pr_out' = engine_compound_risk(pr_in.engine, pr_in.year, pr_in.rcp_scenario)
    /\ UNCHANGED <<pr_in, core_vars, carbon_vars, financing_vars, hazard_vars, runner_vars>>

CalculateAnnualRisk ==
    /\ pr_in.kind = "calculate_annual_risk"
    /\ pr_out = None
    /\ pr_out' = calculate_annual_risk(pr_in.engine, pr_in.hazard_type, pr_in.year,
                                        pr_in.rcp_scenario)
    /\ UNCHANGED <<pr_in, core_vars, carbon_vars, financing_vars, hazard_vars, runner_vars>>

GetPml ==
    /\ pr_in.kind = "get_pml"
    /\ pr_out = None
    /\ pr_out' = [kind |-> "pml",
                   pml |-> get_pml(pr_in.loss_dist, pr_in.exceedance_prob)]
    /\ UNCHANGED <<pr_in, core_vars, carbon_vars, financing_vars, hazard_vars, runner_vars>>

NextProb == EngineCalculateCompoundRisk \/ CalculateAnnualRisk \/ GetPml

SpecProb == InitProb /\ [][NextProb]_vars

----------------------------------------------------------------------------
(* The pipeline runner: src/pipeline/runner.py                             *)

\* str.lower() on the scenario names the model uses
lower(s) ==
    CASE s = "Low" -> "low"
      [] s = "Medium" -> "medium"
      [] s = "High" -> "high"
      [] s = "Extreme" -> "extreme"
      [] OTHER -> s

PhysicalScenario(name, wildfire_outage_rate, drought_derate, cooling_temp_penalty, water_availability_pct) ==
    [kind |-> "PhysicalScenario",
     name |-> name,
     wildfire_outage_rate |-> wildfire_outage_rate,
     drought_derate |-> drought_derate,
     cooling_temp_penalty |-> cooling_temp_penalty,
     water_availability_pct |-> water_availability_pct]

get_physical_risk_scenario(level) ==
    CASE lower(level) = "low" ->
            PhysicalScenario("Low Risk", R(0), R(0), R(0), R(100))
      [] lower(level) = "medium" ->
            PhysicalScenario("Medium Risk", <<1, 100>>, <<1, 50>>, <<1, 100>>, R(90))
      [] lower(level) = "high" ->
            PhysicalScenario("High Risk", <<3, 100>>, <<1, 20>>, <<3, 100>>, R(80))
      [] lower(level) = "extreme" ->
            PhysicalScenario("Extreme Risk", <<1, 20>>, <<1, 10>>, <<1, 20>>, R(60))
      [] OTHER ->
            PhysicalScenario("Baseline (Low)", R(0), R(0), R(0), R(100))

ValueError(message) == [kind |-> "ValueError", message |-> message]

\* CRPModelRunner._load_transition_scenario. No row of the modelled
\* policy.csv has a carbon_scenario column, so no CarbonPricingScenario is
\* linked.
load_transition_scenario(self, scenario_name) ==
    IF scenario_name \notin DOMAIN self.policy_scenarios
    THEN ValueError("Transition scenario not found")
    ELSE LET row == self.policy_scenarios[scenario_name]
         IN  [kind |-> "TransitionScenario",
              name |-> scenario_name,
              dispatch_priority_penalty |-> row.dispatch_penalty,
              retirement_years |-> row.retirement_years,
              carbon_price_2025 |-> row.carbon_price_2025,
              carbon_price_2030 |-> row.carbon_price_2030,
              carbon_price_2040 |-> row.carbon_price_2040,
              carbon_price_2050 |-> row.carbon_price_2050]

\* A plausible slip: the row taken out of the catalog (dict.pop for dict.get).
policy_scenarios_after_pop(policy_scenarios, scenario_name) ==
    [n \in DOMAIN policy_scenarios \ {scenario_name} |-> policy_scenarios[n]]

\* self.dataset.policy_scenarios once _load_transition_scenario has read it
policy_scenarios_after_get(policy_scenarios, scenario_name) == policy_scenarios

\* CRPModelRunner._load_physical_scenario
load_physical_scenario(self, scenario_name) ==
    IF scenario_name \in DOMAIN self.climada_hazards
    THEN self.climada_hazards[scenario_name]
    ELSE IF scenario_name = "severe_drought"
    THEN PhysicalScenario("severe_drought", <<1, 20>>, <<1, 20>>, <<1, 50>>, R(50))
    ELSE IF lower(scenario_name) \in {"low", "medium", "high", "extreme"}
    THEN get_physical_risk_scenario(scenario_name)
    ELSE IF scenario_name \notin DOMAIN self.physical_risks
    THEN get_physical_risk_scenario("Low")
    ELSE LET row == self.physical_risks[scenario_name]
         IN  PhysicalScenario(scenario_name, row.wildfire_outage_rate,
                              row.drought_derate, row.cooling_temp_penalty,
                              row.water_availability_pct)

\* CRPModelRunner._load_market_scenario
load_market_scenario(scenario_name) ==
    IF scenario_name = "low_demand"
    THEN [name |-> "low_demand", demand_growth_pct |-> R(-1),
          price_sensitivity |-> <<1, 2>>, base_power_price |-> R(80)]
    ELSE IF scenario_name = "high_demand"
    THEN [name |-> "high_demand", demand_growth_pct |-> R(2),
          price_sensitivity |-> <<1, 2>>, base_power_price |-> R(80)]
    ELSE [name |-> "baseline", demand_growth_pct |-> R(1),
          price_sensitivity |-> <<1, 2>>, base_power_price |-> R(80)]

\* apply_transition without a Korea power plan scenario
apply_transition(plant_params, scenario) ==
    [capacity_factor |->
        RatMax(R(0), RatSub(plant_params.capacity_factor,
                            scenario.dispatch_priority_penalty)),
     operating_years |-> IntMin(plant_params.operating_years, scenario.retirement_years)]

apply_climada_physical_risk(plant_params, climada_hazard) ==
    [outage_rate |-> total_outage_rate(climada_hazard),
     capacity_derate |-> total_capacity_derate(climada_hazard),
     efficiency_loss |-> R(0),
     water_constrained_capacity |-> R(1)]

\* apply_physical(plant_params, scenario, climada_hazard); run_scenario
\* passes the hazard data when _load_physical_scenario returned one.
apply_physical(plant_params, physical_data) ==
    IF physical_data.kind = "hazard"
    THEN apply_climada_physical_risk(plant_params, physical_data)
    ELSE [outage_rate |->
             RatMax(R(0), RatAdd(plant_params.base_outage_rate,
                                 physical_data.wildfire_outage_rate)),
          capacity_derate |-> physical_data.drought_derate,
          efficiency_loss |-> physical_data.cooling_temp_penalty,
          water_constrained_capacity |->
             RatMin(R(1), RatDiv(physical_data.water_availability_pct, R(100)))]

\* numpy_financial.npv: values[0] is not discounted
npf_npv(rate, values) ==
    RatSum([i \in 1..Len(values) |->
               RatDiv(values[i], RatPow(RatAdd(R(1), rate), i - 1))])

RECURSIVE first_positive_cumsum(_, _, _)
\* np.where(np.cumsum(fcf) > 0)[0][0] + 1, or None
first_positive_cumsum(fcf, i, cumulative) ==
    IF i > Len(fcf) THEN PyNone
    ELSE IF RatGt(RatAdd(cumulative, fcf[i]), R(0)) THEN R(i)
    ELSE first_positive_cumsum(fcf, i + 1, RatAdd(cumulative, fcf[i]))

np_mean(xs) == RatDiv(RatSum(xs), R(Len(xs)))

RECURSIVE RatLess(_, _)
\* a < b decided on the integer parts and then on the reciprocals of the
\* fractional parts, so that no product of two large numbers is formed
RatLess(a, b) ==
    LET qa == a[1] \div a[2]
        qb == b[1] \div b[2]
        ra == a[1] % a[2]
        rb == b[1] % b[2]
    IN  IF qa # qb THEN qa < qb
        ELSE IF ra = 0 THEN rb > 0
        ELSE IF rb = 0 THEN FALSE
        ELSE RatLess(<<b[2], rb>>, <<a[2], ra>>)

RECURSIVE np_min(_)
np_min(xs) ==
    IF Len(xs) = 1 THEN xs[1]
    ELSE LET rest == np_min(Tail(xs))
         IN  IF RatLess(rest, xs[1]) THEN rest ELSE xs[1]

\* numpy's inf, the DSCR of a plant without debt service
Infinity == <<1, 0>>

\* calculate_metrics. irr, a root of the NPV polynomial, has no exact value
\* and is left out of the record; nothing in the pipeline reads it.
calculate_metrics(cashflows, plant_params) ==
    LET total_capex == RatMul(plant_params.total_capex_million, R(1000000))
        fcf == cashflows.free_cash_flow
        npv == npf_npv(plant_params.discount_rate, fcf)
        debt_struct_ ==
            calculate_debt_service(total_capex, plant_params.debt_fraction,
                                   plant_params.debt_interest_rate,
                                   plant_params.debt_tenor_years)
        n_debt_years == IntMin(plant_params.debt_tenor_years, Len(cashflows.ebitda))
        cfads == [i \in 1..Len(cashflows.ebitda) |->
            RatSub(RatSub(cashflows.ebitda[i], cashflows.tax_expense[i]),
                   cashflows.capex[i])]
        dscr == [i \in 1..n_debt_years |->
            IF RatGt(debt_struct_.annual_debt_service, R(0))
            THEN RatDiv(cfads[i], debt_struct_.annual_debt_service)
            ELSE Infinity]
        cash_available == SubSeq(cfads, 1, n_debt_years)
        llcr_numerator == npf_npv(plant_params.debt_interest_rate, cash_available)
    IN  [kind |-> "FinancialMetrics",
         npv |-> npv,
         avg_dscr |-> IF n_debt_years > 0 THEN np_mean(dscr) ELSE R(0),
         min_dscr |-> IF n_debt_years > 0 THEN np_min(dscr) ELSE R(0),
         llcr |-> IF RatGt(debt_struct_.debt_amount, R(0))
                  THEN RatDiv(llcr_numerator, debt_struct_.debt_amount)
                  ELSE R(0),
         payback_years |-> first_positive_cumsum(fcf, 1, R(0))]

get_counterfactual_baseline_rating == A

\* A plausible slip: the equity premium of the rating migration left out.
calculate_crp_from_ratings_debt_only(baseline_rating, scenario_rating) ==
    RatMul(<<7, 10>>,
           RatSub(to_spread_bps(scenario_rating), to_spread_bps(baseline_rating)))

calculate_crp_from_ratings(baseline_rating, scenario_rating) ==
    LET risk_free_rate == <<3, 100>>
        debt_fraction == <<7, 10>>
        equity_fraction == RatSub(R(1), debt_fraction)
        baseline_debt_rate ==
            RatAdd(risk_free_rate, RatDiv(to_spread_bps(baseline_rating), R(10000)))
        scenario_debt_rate ==
            RatAdd(risk_free_rate, RatDiv(to_spread_bps(scenario_rating), R(10000)))
        equity_premium_per_notch == <<1, 200>>
        notch_diff == scenario_rating - baseline_rating
        scenario_equity_rate ==
            RatAdd(baseline_equity_rate, RatMul(R(notch_diff), equity_premium_per_notch))
        wacc_baseline ==
            RatAdd(RatMul(debt_fraction, baseline_debt_rate),
                   RatMul(equity_fraction, baseline_equity_rate))
        wacc_scenario ==
            RatAdd(RatMul(debt_fraction, scenario_debt_rate),
                   RatMul(equity_fraction, scenario_equity_rate))
    IN  RatMul(RatSub(wacc_scenario, wacc_baseline), R(10000))

\* assess_rating_with_counterfactual with the default counterfactual rating
assess_rating_with_counterfactual(scenario_metrics, up) ==
    LET counterfactual_rating == get_counterfactual_baseline_rating
        scenario_assessment == assess_credit_rating(scenario_metrics, up)
        scenario_rating == scenario_assessment.overall_rating
        notch_change == scenario_rating - counterfactual_rating
    IN  [counterfactual_rating |-> counterfactual_rating,
         counterfactual_spread_bps |-> to_spread_bps(counterfactual_rating),
         scenario_rating |-> scenario_rating,
         scenario_spread_bps |-> to_spread_bps(scenario_rating),
         rating_migration |->
            IF notch_change = 0 THEN "No change"
            ELSE IF notch_change > 0 THEN "Downgrade" ELSE "Upgrade",
         notch_change |-> notch_change,
         crp_bps |-> calculate_crp_from_ratings(counterfactual_rating, scenario_rating),
         scenario_assessment |-> scenario_assessment,
         is_investment_grade |-> scenario_rating <= BBB,
         is_distressed |-> is_distressed(scenario_rating)]

ScenarioResult(scenario_name, cashflow_, metrics_, credit_rating, counterfactual_crp) ==
    [kind |-> "ScenarioResult",
     scenario_name |-> scenario_name,
     cashflow |-> cashflow_,
     metrics |-> metrics_,
     financing |-> None,
     credit_rating |-> credit_rating,
     counterfactual_crp |-> counterfactual_crp]

\* run_scenario's last stage: the balance sheet estimated from the average
\* EBITDA, the rating metrics, the two assessments and the result.
rate_scenario(plant_params, scenario_name, cashflow_, metrics_, up) ==
    LET avg_ebitda == np_mean(cashflow_.ebitda)
        total_capex == RatMul(plant_params.total_capex_million, R(1000000))
        total_debt == RatMul(total_capex, plant_params.debt_fraction)
        financials ==
            [kind |-> "financials",
             capacity_mw |-> plant_params.capacity_mw,
             ebitda |-> avg_ebitda,
             fixed_assets |-> total_capex,
             interest_expense |-> RatMul(total_debt, plant_params.debt_interest_rate),
             total_debt |-> total_debt,
             cash_and_equivalents |-> RatMul(avg_ebitda, <<1, 10>>),
             total_equity |-> RatMul(total_capex, plant_params.equity_fraction),
             total_assets |-> total_capex,
             dscr |-> metrics_.avg_dscr,
             total_debt_service |-> PyNone,
             cfads |-> PyNone]
    IN  CHOOSE result \in
            {ScenarioResult(scenario_name, cashflow_, metrics_,
                            assess_credit_rating(rating_metrics, up),
                            assess_rating_with_counterfactual(rating_metrics, up)) :
                rating_metrics \in
                    {calculate_rating_metrics_from_financials(f) : f \in {financials}}} :
            TRUE

\* run_scenario from apply_transition on, with the scenarios already loaded
\* and no Korea power plan named. Each stage's value is bound before the
\* next stage reads it: the cash flows, then the metrics, then the rating.
run_loaded_scenario(plant_params, scenario_name, transition_scenario, physical_data, market_scenario, up) ==
    LET transition_adj == apply_transition(plant_params, transition_scenario)
        physical_adj == apply_physical(plant_params, physical_data)
        cashflows ==
            {compute_cashflows_timeseries(
                [kind |-> "cf_in", plant |-> plant_params,
                 scenario |-> transition_scenario, transition_adj |-> transition_adj,
                 physical_adj |-> physical_adj, market |-> market_scenario,
                 start_year |-> 2025])}
    IN  CHOOSE result \in
            UNION {{rate_scenario(plant_params, scenario_name, cashflow_, metrics_, up) :
                       metrics_ \in {calculate_metrics(cashflow_, plant_params)}} :
                   cashflow_ \in cashflows} :
            TRUE

\* CRPModelRunner.run_scenario; a raised exception is returned as a record
run_scenario(self, scenario_spec, up) ==
    LET transition_scenario == load_transition_scenario(self, scenario_spec.transition)
        physical_data == load_physical_scenario(self, scenario_spec.physical)
        market_scenario == load_market_scenario(scenario_spec.market)
    IN  IF transition_scenario.kind = "ValueError" THEN transition_scenario
        ELSE run_loaded_scenario(self.plant_params, scenario_spec.name,
                                 transition_scenario, physical_data, market_scenario, up)

\* _get_financing_params: the financing table plus the plant's capital structure
get_financing_params(self) ==
    [spread_slope_bps_per_pct |-> self.financing_params.spread_slope_bps_per_pct,
     equity_slope_pct_per_pct |-> self.financing_params.equity_slope_pct_per_pct,
     baseline_spread_bps |-> self.financing_params.baseline_spread_bps,
     risk_free_rate |-> self.financing_params.risk_free_rate,
     debt_fraction |-> self.plant_params.debt_fraction,
     equity_fraction |-> self.plant_params.equity_fraction]

\* A plausible slip: the result rebuilt around the financing impact, the
\* counterfactual analysis not carried over.
assign_financing_rebuilt(result, financing) ==
    [ScenarioResult(result.scenario_name, result.cashflow, result.metrics,
                    result.credit_rating, None)
        EXCEPT !.financing = financing]

\* run_multi_scenario, line 318: result.financing = ...
assign_financing(result, financing) == [result EXCEPT !.financing = financing]

\* A plausible slip: every scenario measured against its own NPV, the
\* baseline result ignored.
financing_against_own_npv(self, result, baseline_result) ==
    LET scenario_rating == result.credit_rating.overall_rating
    IN  calculate_financing_with_counterfactual(
            to_spread_bps(scenario_rating),
            to_spread_bps(get_counterfactual_baseline_rating),
            R(0),
            RatMul(self.plant_params.total_capex_million, R(1000000)),
            get_financing_params(self),
            scenario_rating, get_counterfactual_baseline_rating)

\* A plausible slip: the baseline scenario left without a financing impact.
financing_except_baseline(self, result, baseline_result) ==
    LET counterfactual_npv ==
            IF baseline_result # None THEN baseline_result.metrics.npv
            ELSE result.metrics.npv
        npv_loss == RatSub(counterfactual_npv, result.metrics.npv)
        scenario_rating == result.credit_rating.overall_rating
    IN  IF result.scenario_name = "baseline" THEN None
        ELSE calculate_financing_with_counterfactual(
                 to_spread_bps(scenario_rating),
                 to_spread_bps(get_counterfactual_baseline_rating),
                 RatMax(R(0), npv_loss),
                 RatMul(self.plant_params.total_capex_million, R(1000000)),
                 get_financing_params(self),
                 scenario_rating, get_counterfactual_baseline_rating)

\* The body of run_multi_scenario's second loop: the financing impact of one
\* result. Every result carries a credit rating, so the linear fallback of
\* the else branch is never taken.
financing_of(self, result, baseline_result) ==
    LET counterfactual_npv ==
            IF baseline_result # None THEN baseline_result.metrics.npv
            ELSE result.metrics.npv
        npv_loss == RatSub(counterfactual_npv, result.metrics.npv)
        scenario_rating == result.credit_rating.overall_rating
    IN  calculate_financing_with_counterfactual(
            to_spread_bps(scenario_rating),
            to_spread_bps(get_counterfactual_baseline_rating),
            RatMax(R(0), npv_loss),
            RatMul(self.plant_params.total_capex_million, R(1000000)),
            get_financing_params(self),
            scenario_rating, get_counterfactual_baseline_rating)

\* The longest scenario list handed to run_multi_scenario.
MaxScenarios == 2

\* A 1 MW plant with a CAPEX of $0.42M, half of it borrowed at 10% over two
\* years; fixed O&M of $400/kW-year makes its EBITDA negative.
RunnerPlants ==
    {[capacity_mw |-> R(1), capacity_factor |-> <<1, 2>>, operating_years |-> 1,
      base_outage_rate |-> <<1, 20>>, power_price_per_mwh |-> R(80),
      heat_rate_mmbtu_mwh |-> R(10), fuel_price_per_mmbtu |-> R(3),
      fixed_opex_per_kw_year |-> fo, variable_opex_per_mwh |-> R(5),
      emissions_tCO2_per_mwh |-> R(1), total_capex_million |-> <<21, 50>>,
      useful_life |-> 20, tax_rate |-> <<1, 4>>, discount_rate |-> <<2, 25>>,
      debt_fraction |-> <<1, 2>>, equity_fraction |-> <<1, 2>>,
      debt_interest_rate |-> <<1, 10>>, debt_tenor_years |-> 2] :
        fo \in {R(0), R(400)}}

\* The runner after __init__: plant and financing parameters and the three
\* scenario catalogs read from data/raw.
Runners ==
    {[plant_params |-> plant,
      financing_params |->
         [spread_slope_bps_per_pct |-> R(50), equity_slope_pct_per_pct |-> <<4, 5>>,
          baseline_spread_bps |-> R(150), risk_free_rate |-> <<3, 100>>],
      policy_scenarios |->
         [baseline |->
             [dispatch_penalty |-> R(0), retirement_years |-> 40,
              carbon_price_2025 |-> R(0), carbon_price_2030 |-> R(0),
              carbon_price_2040 |-> R(0), carbon_price_2050 |-> R(0)],
          aggressive_transition |->
             [dispatch_penalty |-> <<1, 4>>, retirement_years |-> 1,
              carbon_price_2025 |-> R(40), carbon_price_2030 |-> R(90),
              carbon_price_2040 |-> R(150), carbon_price_2050 |-> R(200)]],
      physical_risks |->
         [baseline |->
             [wildfire_outage_rate |-> R(0), drought_derate |-> R(0),
              cooling_temp_penalty |-> R(0), water_availability_pct |-> R(100)],
          high_physical |->
             [wildfire_outage_rate |-> <<1, 20>>, drought_derate |-> <<2, 25>>,
              cooling_temp_penalty |-> <<1, 20>>, water_availability_pct |-> R(100)]],
      climada_hazards |->
         [climada_rcp85 |->
             CLIMADAHazardData(<<1, 50>>, <<1, 100>>, <<1, 50>>, <<6, 5>>)]] :
        plant \in RunnerPlants}

ScenarioSpec(name, transition, physical, market) ==
    [name |-> name, transition |-> transition, physical |-> physical, market |-> market]

\* Entries of the scenario list: the default ones the catalogs cover, a
\* dynamic level, a second entry named "baseline", and two misspelt names.
ScenarioSpecs ==
    {ScenarioSpec("baseline", "baseline", "baseline", "baseline"),
     ScenarioSpec("aggressive_transition", "aggressive_transition", "baseline", "baseline"),
     ScenarioSpec("high_physical", "baseline", "high_physical", "baseline"),
     ScenarioSpec("combined_aggressive", "aggressive_transition", "high_physical",
                  "baseline"),
     ScenarioSpec("low_demand", "baseline", "baseline", "low_demand"),
     ScenarioSpec("severe_drought", "baseline", "severe_drought", "baseline"),
     ScenarioSpec("climada_rcp85", "baseline", "climada_rcp85", "high_demand"),
     ScenarioSpec("extreme", "baseline", "Extreme", "baseline"),
     ScenarioSpec("baseline", "aggressive_transition", "high_physical", "baseline"),
     ScenarioSpec("typo_transition", "agressive_transition", "baseline", "baseline"),
     ScenarioSpec("typo_physical", "baseline", "high_phisical", "baseline")}

RECURSIVE SeqsUpTo(_, _)
SeqsUpTo(S, n) ==
    IF n = 0 THEN {<< >>}
    ELSE LET shorter == SeqsUpTo(S, n - 1)
         IN  shorter \cup {Append(q, x) : q \in shorter, x \in S}

\* run_multi_scenario(scenarios) about to enter its first loop
InitRunner ==
    /\ fin = None /\ metrics = None /\ assessment = None /\ prev = None
    /\ fp_tie_up \in BOOLEAN
    /\ CashIdle
    /\ DebtIdle
    /\ FinancingIdle
    /\ HazardIdle
    /\ ProbIdle
    /\ CarbonIdle
    /\ runner \in Runners
    /\ scenario_specs \in SeqsUpTo(ScenarioSpecs, MaxScenarios)
    /\ multi = [pc |-> "loop", i |-> 1, results |-> << >>, baseline_result |-> None,
                raised |-> None]
    /\ threads = None

\* One pass of the first loop: run_scenario for the next entry of the list.
\* An exception leaves run_multi_scenario at once.
RunNextScenario ==
    /\ multi # None
    /\ multi.pc = "loop"
    /\ multi.i <= Len(scenario_specs)
    /\ \E scenario_spec \in {scenario_specs[multi.i]} :
       \E result \in {run_scenario(runner, scenario_spec, fp_tie_up)} :
           /\ runner' = [runner EXCEPT !.policy_scenarios =
                            policy_scenarios_after_get(@, scenario_spec.transition)]
           /\ multi' =
                IF result.kind = "ValueError"
                THEN [multi EXCEPT !.pc = "raised", !.raised = result]
                ELSE [multi EXCEPT
                        !.i = @ + 1,
                        !.results = (scenario_spec.name :> result) @@ @,
                        !.baseline_result =
                            IF scenario_spec.name = "baseline" THEN result ELSE @]
    /\ UNCHANGED <<scenario_specs, threads, core_vars, carbon_vars, financing_vars, hazard_vars,
                   prob_vars>>

\* The second loop and the return: every result gets its financing impact.
\* baseline_result is the object stored under "baseline", so it changes with it.
CalculateFinancingImpacts ==
    /\ multi # None
    /\ multi.pc = "loop"
    /\ multi.i > Len(scenario_specs)
    /\ \E financed \in
           {[n \in DOMAIN multi.results |->
                assign_financing(multi.results[n],
                    financing_of(runner, multi.results[n], multi.baseline_result))]} :
           multi' = [multi EXCEPT
                        !.pc = "returned",
                        !.results = financed,
                        !.baseline_result =
                            IF @ # None THEN financed["baseline"] ELSE @]
    /\ UNCHANGED <<runner, scenario_specs, threads, core_vars, carbon_vars, financing_vars, hazard_vars,
                   prob_vars>>

NextRunner == RunNextScenario \/ CalculateFinancingImpacts

SpecRunner == InitRunner /\ [][NextRunner]_vars

\* Worker threads calling run_scenario on one runner.
Threads == {"t1", "t2"}

InitConcurrent ==
    /\ fin = None /\ metrics = None /\ assessment = None /\ prev = None
    /\ fp_tie_up \in BOOLEAN
    /\ CashIdle
    /\ DebtIdle
    /\ FinancingIdle
    /\ HazardIdle
    /\ ProbIdle
    /\ CarbonIdle
    /\ runner \in Runners
    /\ scenario_specs = None
    /\ multi = None
    /\ threads \in [Threads ->
                      [pc : {"start"}, scenario_spec : ScenarioSpecs,
                       plant_params : {None}, transition_scenario : {None},
                       physical_data : {None}, market_scenario : {None},
                       result : {None}]]

\* run_scenario up to the transition scenario
ThreadLoadTransition(t) ==
    /\ threads # None
    /\ threads[t].pc = "start"
    /\ LET name == threads[t].scenario_spec.transition
           transition_scenario == load_transition_scenario(runner, name)
       IN  /\ runner' = [runner EXCEPT !.policy_scenarios =
                            policy_scenarios_after_get(@, name)]
           /\ threads' =
                IF transition_scenario.kind = "ValueError"
                THEN [threads EXCEPT ![t].pc = "raised",
                                     ![t].result = transition_scenario]
                ELSE [threads EXCEPT ![t].pc = "transition_loaded",
                                     ![t].plant_params = runner.plant_params,
                                     ![t].transition_scenario = transition_scenario]
    /\ UNCHANGED <<scenario_specs, multi, core_vars, carbon_vars, financing_vars, hazard_vars,
                   prob_vars>>

\* the physical and the market scenario
ThreadLoadPhysical(t) ==
    /\ threads # None
    /\ threads[t].pc = "transition_loaded"
    /\ threads' =
         [threads EXCEPT
            ![t].pc = "physical_loaded",
            ![t].physical_data =
                load_physical_scenario(runner, threads[t].scenario_spec.physical),
            ![t].market_scenario =
                load_market_scenario(threads[t].scenario_spec.market)]
    /\ UNCHANGED <<runner, scenario_specs, multi, core_vars, carbon_vars, financing_vars, hazard_vars,
                   prob_vars>>

\* the adjustments, the cash flows, the metrics, the rating and the return
ThreadCompute(t) ==
    /\ threads # None
    /\ threads[t].pc = "physical_loaded"
    /\ threads' =
         [threads EXCEPT
            ![t].pc = "done",
            ![t].result =
                run_loaded_scenario(threads[t].plant_params,
                                    threads[t].scenario_spec.name,
                                    threads[t].transition_scenario,
                                    threads[t].physical_data,
                                    threads[t].market_scenario, fp_tie_up)]
    /\ UNCHANGED <<runner, scenario_specs, multi, core_vars, carbon_vars, financing_vars, hazard_vars,
                   prob_vars>>

NextConcurrent ==
    \E t \in Threads :
        \/ ThreadLoadTransition(t)
        \/ ThreadLoadPhysical(t)
        \/ ThreadCompute(t)

SpecConcurrent == InitConcurrent /\ [][NextConcurrent]_vars

----------------------------------------------------------------------------
(* The whole engine: one of the components runs.                           *)

----------------------------------------------------------------------------
(* Carbon price trajectories: src/scenarios/carbon_pricing.py and the      *)
(* carbon price of a TransitionScenario, src/scenarios/base.py.            *)

\* Natural numbers of any size, as sequences of base-10000 digits with the
\* lowest digit first; the empty sequence is 0.
RECURSIVE BigOfNat(_)
BigOfNat(n) == IF n = 0 THEN << >> ELSE <<n % 10000>> \o BigOfNat(n \div 10000)

\* a * m + carry for 0 < m <= 100000, as the pair of the Len(a) low digits
\* and the carry out of them; the digits are split in halves.
RECURSIVE BigMulCarry(_, _, _)
BigMulCarry(a, m, carry) ==
    IF Len(a) = 0 THEN <<a, carry>>
    ELSE IF Len(a) = 1
    THEN CHOOSE r \in {<<<<t % 10000>>, t \div 10000>> : t \in {a[1] * m + carry}} : TRUE
    ELSE CHOOSE r \in UNION {
             {<<lo[1] \o hi[1], hi[2]>> :
                 hi \in {BigMulCarry(high_digits, m, lo[2]) :
                            high_digits \in {SubSeq(a, Len(a) \div 2 + 1, Len(a))}}} :
             lo \in {BigMulCarry(low_digits, m, carry) :
                        low_digits \in {SubSeq(a, 1, Len(a) \div 2)}}} : TRUE

\* a * m
BigMulSmall(a, m) ==
    CHOOSE r \in {pc[1] \o BigOfNat(pc[2]) : pc \in {BigMulCarry(a, m, 0)}} : TRUE

\* a * m^e, the e multiplications split in halves
RECURSIVE BigMulPow(_, _, _)
BigMulPow(a, m, e) ==
    IF e = 0 THEN a
    ELSE IF e = 1 THEN BigMulSmall(a, m)
    ELSE CHOOSE r \in {BigMulPow(b, m, e - e \div 2) :
                          b \in {BigMulPow(a, m, e \div 2)}} : TRUE

RECURSIVE BigLessFrom(_, _, _)
BigLessFrom(a, b, i) ==
    IF i = 0 THEN FALSE
    ELSE IF a[i] # b[i] THEN a[i] < b[i]
    ELSE BigLessFrom(a, b, i - 1)

BigLess(a, b) ==
    IF Len(a) # Len(b) THEN Len(a) < Len(b) ELSE BigLessFrom(a, b, Len(a))

\* The float coef * ratio ** (num / den), for a ratio > 0: what the
\* extrapolation p2 * (1 + annual_growth) ** years_beyond amounts to, with
\* annual_growth = (p2 / p1) ** (1 / den) - 1. The root is irrational in
\* general, so the value is kept in this form and only compared.
Grown(coef, ratio, num, den) == [coef |-> coef, ratio |-> ratio, num |-> num, den |-> den]

\* A price that is an exact rational.
Exact(r) == Grown(r, R(1), 0, 1)

\* The power of a negative base: a complex number in Python.
ComplexPrice == [kind |-> "complex"]

\* x < y for two prices with positive coefficients: both sides raised to
\* the common denominator of the exponents and cross-multiplied.
GrownLess(x, y) ==
    IF x.num = 0 /\ y.num = 0 THEN RatLt(x.coef, y.coef)
    ELSE LET L == IF x.den = y.den THEN x.den ELSE x.den * y.den
             ex == x.num * (L \div x.den)
             ey == y.num * (L \div y.den)
         IN  \E lhs \in {BigMulPow(BigMulPow(BigMulPow(BigMulPow(<<1>>,
                        x.coef[1], L), x.ratio[1], ex), y.coef[2], L), y.ratio[2], ey)} :
             \E rhs \in {BigMulPow(BigMulPow(BigMulPow(BigMulPow(<<1>>,
                        y.coef[1], L), y.ratio[1], ey), x.coef[2], L), x.ratio[2], ex)} :
                 BigLess(lhs, rhs)

Negated(x) == [x EXCEPT !.coef = RatSub(R(0), x.coef)]

PriceLt(x, y) ==
    IF x.coef[1] > 0 /\ y.coef[1] > 0 THEN GrownLess(x, y)
    ELSE IF x.coef[1] < 0 /\ y.coef[1] < 0 THEN GrownLess(Negated(y), Negated(x))
    ELSE x.coef[1] < y.coef[1]

PriceLe(x, y) == ~PriceLt(y, x)

CarbonPricingScenario(name, price_trajectory) ==
    [kind |-> "CarbonPricingScenario", name |-> name, price_trajectory |-> price_trajectory]

\* get_carbon_price, lines 68-80: the price at or beyond the last anchor,
\* grown at the rate of the last two anchors when the earlier one is > 0.
extrapolate_beyond_last(price_trajectory, year) ==
    LET years == DOMAIN price_trajectory
        y2 == SetMax(years)
        p2 == price_trajectory[y2]
    IN  IF Cardinality(years) >= 2
        THEN LET y1 == SetMax(years \ {y2})
                 p1 == price_trajectory[y1]
             IN  IF RatGt(p1, R(0))
                 THEN IF RatGt(p2, R(0))
                      THEN Grown(p2, RatDiv(p2, p1), year - y2, y2 - y1)
                      ELSE IF p2 = R(0) THEN Exact(p2) ELSE ComplexPrice
                 ELSE Exact(p2)
        ELSE Exact(p2)

\* A plausible slip: the interpolation weight taken from the far anchor.
interpolate_between_reversed(y0, p0, y1, p1, year) ==
    RatAdd(p0, RatMul(Norm(y1 - year, y1 - y0), RatSub(p1, p0)))

\* get_carbon_price, lines 85-89: linear interpolation between two anchors
interpolate_between(y0, p0, y1, p1, year) ==
    RatAdd(p0, RatMul(Norm(year - y0, y1 - y0), RatSub(p1, p0)))

\* CarbonPricingScenario.get_carbon_price
CarbonPricingScenario_get_carbon_price(self, year) ==
    LET price_trajectory == self.price_trajectory
        years == DOMAIN price_trajectory
    IN  IF years = {} THEN Exact(R(0))
        ELSE IF year <= SetMin(years) THEN Exact(price_trajectory[SetMin(years)])
        ELSE IF year >= SetMax(years) THEN extrapolate_beyond_last(price_trajectory, year)
        ELSE LET y1 == SetMin({y \in years : y >= year})
                 y0 == SetMax({y \in years : y < y1})
             IN  Exact(interpolate_between(y0, price_trajectory[y0],
                                           y1, price_trajectory[y1], year))

\* TransitionScenario._interpolate_carbon_price, lines 70-77: beyond 2050
extrapolate_carbon_price(ts, year) ==
    IF RatGt(ts.carbon_price_2040, R(0))
    THEN IF RatGt(ts.carbon_price_2050, R(0))
         THEN Grown(ts.carbon_price_2050,
                    RatDiv(ts.carbon_price_2050, ts.carbon_price_2040), year - 2050, 10)
         ELSE IF ts.carbon_price_2050 = R(0) THEN Exact(R(0)) ELSE ComplexPrice
    ELSE Exact(ts.carbon_price_2050)

\* TransitionScenario.get_carbon_price in full: the linked
\* CarbonPricingScenario when there is one, the four anchors otherwise.
TransitionScenario_get_carbon_price(ts, year) ==
    IF ts.carbon_scenario # None
    THEN CarbonPricingScenario_get_carbon_price(ts.carbon_scenario, year)
    ELSE IF year <= 2050 THEN Exact(interpolate_carbon_price(ts, year))
    ELSE extrapolate_carbon_price(ts, year)

\* A mapping year -> price from a set of (year, price) pairs
Trajectory(pairs) ==
    [y \in {pr[1] : pr \in pairs} |-> R((CHOOSE pr \in pairs : pr[1] = y)[2])]

create_korea_ets_current_policy ==
    CarbonPricingScenario("korea_ets_current_policy",
        Trajectory({<<2024, 8>>, <<2025, 8>>, <<2026, 10>>, <<2027, 12>>, <<2028, 14>>,
                    <<2029, 16>>, <<2030, 20>>, <<2032, 25>>, <<2035, 35>>, <<2040, 50>>,
                    <<2045, 60>>, <<2050, 75>>}))

create_high_ambition_scenario ==
    CarbonPricingScenario("high_ambition_1.5c",
        Trajectory({<<2024, 15>>, <<2025, 40>>, <<2026, 65>>, <<2027, 90>>, <<2028, 120>>,
                    <<2029, 150>>, <<2030, 185>>, <<2032, 230>>, <<2035, 320>>,
                    <<2040, 420>>, <<2045, 520>>, <<2050, 600>>}))

\* A plausible slip: the current K-ETS price kept for the first year.
create_no_policy_baseline_ets_2024 ==
    CarbonPricingScenario("no_policy_baseline",
        [year \in 2024..2060 |-> IF year = 2024 THEN R(8) ELSE R(0)])

create_no_policy_baseline ==
    CarbonPricingScenario("no_policy_baseline", [year \in 2024..2060 |-> R(0)])

create_iea_aps_scenario ==
    CarbonPricingScenario("iea_aps_advanced",
        Trajectory({<<2024, 25>>, <<2025, 35>>, <<2030, 90>>, <<2035, 125>>, <<2040, 160>>,
                    <<2045, 195>>, <<2050, 230>>}))

\* A TransitionScenario as far as its carbon price goes
TransitionScenario(name, p2025, p2030, p2040, p2050, carbon_scenario) ==
    [kind |-> "TransitionScenario", name |-> name,
     carbon_price_2025 |-> R(p2025), carbon_price_2030 |-> R(p2030),
     carbon_price_2040 |-> R(p2040), carbon_price_2050 |-> R(p2050),
     carbon_scenario |-> carbon_scenario]

\* The trajectories queried: built-in scenarios, trajectories as a CSV file
\* or a caller may give them (anchors from 2030 on, anchors up to 2024, a
\* price of 0 at the last anchor but one, a single anchor, none), and
\* transition scenarios with and without a linked trajectory.
CarbonSubjects ==
    {create_korea_ets_current_policy, create_high_ambition_scenario,
     create_no_policy_baseline, create_iea_aps_scenario,
     CarbonPricingScenario("late_start", Trajectory({<<2030, 90>>, <<2050, 230>>})),
     CarbonPricingScenario("early_end", Trajectory({<<2020, 5>>, <<2024, 10>>})),
     CarbonPricingScenario("from_zero", Trajectory({<<2024, 0>>, <<2040, 100>>})),
     CarbonPricingScenario("single", Trajectory({<<2030, 50>>})),
     CarbonPricingScenario("empty", << >>),
     TransitionScenario("aggressive_transition", 40, 90, 150, 200, None),
     TransitionScenario("late_pricing", 0, 0, 0, 10, None),
     TransitionScenario("baseline", 0, 0, 0, 0, None),
     TransitionScenario("linked", 40, 90, 150, 200, create_high_ambition_scenario)}

\* get_carbon_price of either class
subject_get_carbon_price(subject, year) ==
    IF subject.kind = "TransitionScenario"
    THEN TransitionScenario_get_carbon_price(subject, year)
    ELSE CarbonPricingScenario_get_carbon_price(subject, year)

\* The first and the last of the consecutive years queried.
FirstQueryYear == 2020

LastQueryYear == 2062

\* Years far beyond every anchor.
FarYears == {2100, 2179, 2180, 2181}

QueryYears == (FirstQueryYear..LastQueryYear) \cup FarYears

InitCarbon ==
    /\ RatingIdle
    /\ CashIdle
    /\ DebtIdle
    /\ FinancingIdle
    /\ HazardIdle
    /\ ProbIdle
    /\ RunnerIdle
    /\ cp_in \in [subject : CarbonSubjects, year : QueryYears]
    /\ cp_out = None
    /\ cp_prev = None

GetCarbonPrice ==
    /\ cp_in # None
    /\ cp_out = None
    /\ cp_out' = subject_get_carbon_price(cp_in.subject, cp_in.year)
    /\ UNCHANGED <<cp_in, cp_prev, core_vars, financing_vars, hazard_vars, prob_vars,
                   runner_vars>>

\* The queries that follow one: the same trajectory a year later, or at
\* 2030 after 2024 and 2050 after 2030, or another trajectory for the same
\* year.
FollowUps(query) ==
    {[subject |-> query.subject, year |-> y] :
        y \in {y2 \in QueryYears :
                  \/ y2 = query.year + 1
                  \/ <<query.year, y2>> \in {<<2024, 2030>>, <<2030, 2050>>}}}
    \cup {[subject |-> s, year |-> query.year] : s \in CarbonSubjects \ {query.subject}}

GetCarbonPriceAgain ==
    /\ cp_in # None
    /\ cp_out # None
    /\ cp_prev = None
    /\ \E query \in FollowUps(cp_in) :
           /\ cp_prev' = [subject |-> cp_in.subject, year |-> cp_in.year, price |-> cp_out]
           /\ cp_in' = query
           /\ cp_out' = subject_get_carbon_price(query.subject, query.year)
    /\ UNCHANGED <<core_vars, financing_vars, hazard_vars, prob_vars, runner_vars>>

NextCarbon == GetCarbonPrice \/ GetCarbonPriceAgain

SpecCarbon == InitCarbon /\ [][NextCarbon]_vars

Init ==
    \/ InitRating \/ InitCash \/ InitDebt \/ InitFinancing \/ InitHazard \/ InitProb
    \/ InitRunner \/ InitConcurrent \/ InitCarbon

Next ==
    \/ NextRating \/ NextCash \/ NextDebt \/ NextFinancing \/ NextHazard \/ NextProb
    \/ NextRunner \/ NextConcurrent \/ NextCarbon

Spec == Init /\ [][Next]_vars

----------------------------------------------------------------------------
(* Properties of the credit rating assessor.                               *)

Assessed == assessment.kind = "assessment"

\* Twenty times the weighted average of the seven factor ratings, with the
\* weights 5%, 10%, 15%, 35%, 15%, 10%, 10%.
Score20(cr) ==
    cr.capacity + 2 * cr.profitability + 3 * cr.coverage + 7 * cr.dscr
    + 3 * cr.net_debt_leverage + 2 * cr.equity_leverage + 2 * cr.asset_leverage

\* C1: whenever the coverage or the dscr factor rating is CCC or worse
\* (value >= 7), the overall rating is at least that factor's value.
C1_DistressOverride ==
    Assessed =>
        \A f \in {"coverage", "dscr"} :
            assessment.component_ratings[f] >= 7
                => assessment.overall_rating >= assessment.component_ratings[f]

\* C1 witness: coverage is in default (D) while the weighted average alone
\* would have been better, and the override lifts the overall rating to D.
C1_Witness ==
    /\ Assessed
    /\ assessment.component_ratings.coverage = D
    /\ assessment.component_ratings.dscr < CCC
    /\ assessment.overall_rating = D
    /\ rounded_score(assessment.component_ratings, fp_tie_up) < D

\* C2 as stated: the overall rating is never better than the worst of the
\* dscr, coverage and profitability factor ratings.
C2_NeverBetterThanWorstCritical ==
    Assessed =>
        \A f \in {"dscr", "coverage", "profitability"} :
            assessment.overall_rating >= assessment.component_ratings[f]

\* C2 amended: the overall rating is never better than any of the dscr,
\* coverage and profitability factor ratings that is in the distressed
\* band (value >= 7).
C2_NeverBetterThanWorstDistressedCritical ==
    Assessed =>
        \A f \in {"dscr", "coverage", "profitability"} :
            is_distressed(assessment.component_ratings[f])
                => assessment.overall_rating >= assessment.component_ratings[f]

\* C2 witness: two critical factors are distressed at different levels and
\* the overall rating is the worse of the two, above the weighted average.
C2_Witness ==
    /\ Assessed
    /\ assessment.component_ratings.profitability = CC
    /\ assessment.component_ratings.dscr = CCC
    /\ assessment.component_ratings.coverage < CCC
    /\ assessment.overall_rating = CC
    /\ rounded_score(assessment.component_ratings, fp_tie_up) < CC

\* C3: with EBITDA < 0, whatever the other financial inputs (zero or
\* negative denominators included), the metrics are computed without a
\* ZeroDivisionError and the overall rating is one of CCC, CC, C, D.
C3_NegativeEbitdaIsDistressed ==
    (fin # None /\ RatLt(fin.ebitda, R(0)) /\ prev = None) =>
        /\ metrics.kind \in {"none", "metrics"}
        /\ Assessed => assessment.overall_rating \in CCC..D

\* C3 witness: EBITDA < 0 with no interest expense and no equity, assessed.
C3_Witness ==
    /\ fin # None
    /\ RatLt(fin.ebitda, R(0))
    /\ RatLe(fin.interest_expense, R(0))
    /\ RatLe(fin.total_equity, R(0))
    /\ RatLe(fin.fixed_assets, R(0))
    /\ prev = None
    /\ Assessed
    /\ assessment.overall_rating \in CCC..D

\* C4: of two assessments of metrics that differ only in dscr, the one with
\* the lower dscr has an overall rating at least as bad (numerically high).
C4_DscrMonotone ==
    prev # None =>
        /\ RatLe(prev.dscr, metrics.dscr)
               => prev.overall_rating >= assessment.overall_rating
        /\ RatLe(metrics.dscr, prev.dscr)
               => assessment.overall_rating >= prev.overall_rating

\* C4 witness: the DSCR was raised and the overall rating improved.
C4_Witness ==
    /\ prev # None
    /\ RatLt(prev.dscr, metrics.dscr)
    /\ prev.overall_rating > assessment.overall_rating

C16_SentinelsForBadDenominators ==
    (fin # None /\ metrics # None) =>
        /\ metrics.kind = "metrics"
        /\ RatLe(fin.interest_expense, R(0)) =>
               metrics.ebitda_to_interest =
                   (IF RatGe(fin.ebitda, R(0)) THEN R(999) ELSE R(-999))
        /\ RatLe(fin.total_equity, R(0)) => metrics.debt_to_equity = R(999)
        /\ fin.ebitda = R(0) => metrics.net_debt_to_ebitda = R(999)
        /\ Assessed =>
               /\ assessment.overall_rating \in Rating
               /\ \A f \in DOMAIN assessment.component_ratings :
                      assessment.component_ratings[f] \in Rating

\* C16 witness: EBITDA 0 with no interest expense, negative equity and no
\* assets: three sentinels at once, and the assessor still rates the plant.
C16_Witness ==
    /\ fin # None
    /\ fin.ebitda = R(0)
    /\ fin.interest_expense = R(0)
    /\ RatLt(fin.total_equity, R(0))
    /\ fin.total_assets = R(0)
    /\ metrics.kind = "metrics"
    /\ metrics.ebitda_to_interest = R(999)
    /\ metrics.debt_to_equity = R(999)
    /\ metrics.net_debt_to_ebitda = R(999)
    /\ Assessed
    /\ assessment.overall_rating \in Rating

\* The critical factor ratings of the assessment that are CCC or worse.
DistressedCritical ==
    {assessment.component_ratings[f] :
        f \in {g \in {"dscr", "coverage", "profitability"} :
                  assessment.component_ratings[g] >= 7}}

\* C28: whenever at least one of the dscr, coverage and profitability
\* factor ratings is distressed (value >= 7), the overall rating is exactly
\* the worst (highest) of those distressed ratings; the rounded weighted
\* average of the seven factor ratings never exceeds it.
C28_OverallIsWorstDistressedCritical ==
    (Assessed /\ DistressedCritical # {}) =>
        /\ assessment.overall_rating = SetMax(DistressedCritical)
        /\ rounded_score(assessment.component_ratings, fp_tie_up)
               <= SetMax(DistressedCritical)

\* C28 witness: the worst factors' case for the average. Every critical
\* factor is CC and so are the net-debt leverage (negative EBITDA); the
\* other factors are at their worst, B: the weighted average 7.5 rounds to at
\* most CC and the overall rating is CC.
C28_Witness ==
    /\ Assessed
    /\ assessment.component_ratings.dscr = CC
    /\ assessment.component_ratings.coverage = CC
    /\ assessment.component_ratings.profitability = CC
    /\ assessment.component_ratings.net_debt_leverage = CC
    /\ assessment.component_ratings.equity_leverage = B
    /\ assessment.component_ratings.asset_leverage = B
    /\ weighted_score(assessment.component_ratings) = <<15, 2>>
    /\ assessment.overall_rating = CC

----------------------------------------------------------------------------
(* Properties of the cash-flow engine.                                     *)

Computed == cashflow.kind = "cashflow"

SeriesYears == DOMAIN cashflow.years

PreTaxIncome(i) == RatSub(cashflow.ebit[i], cashflow.interest_expense[i])

\* C6: in every year EBITDA is exactly revenue minus the sum of the fuel,
\* variable O&M, fixed O&M, carbon and outage costs, negative years
\* included: a loss is never floored at zero.
C6_EbitdaIdentity ==
    Computed =>
        \A i \in SeriesYears :
            cashflow.ebitda[i] =
                RatSub(cashflow.revenue[i],
                       RatAdd(cashflow.fuel_costs[i],
                       RatAdd(cashflow.variable_opex[i],
                       RatAdd(cashflow.fixed_opex[i],
                       RatAdd(cashflow.carbon_costs[i], cashflow.outage_costs[i])))))

\* C6 witness: a year whose costs exceed its revenue, with EBITDA < 0.
C6_Witness ==
    /\ Computed
    /\ \E i \in SeriesYears :
          /\ RatLt(cashflow.revenue[i], cashflow.total_costs[i])
          /\ RatGt(cashflow.revenue[i], R(0))
          /\ RatLt(cashflow.ebitda[i], R(0))

\* C7: in every year tax = max(0, (EBIT - interest) x tax_rate) and net
\* income = EBIT - interest - tax; a year with negative pre-tax income pays
\* no tax and its net income is the pre-tax loss, and a later year's tax
\* depends on that year alone (no loss carried forward).
C7_TaxAndNetIncome ==
    Computed =>
        \A i \in SeriesYears :
            /\ cashflow.tax_expense[i] =
                   RatMax(R(0), RatMul(PreTaxIncome(i), cf_in.plant.tax_rate))
            /\ cashflow.net_income[i] = RatSub(PreTaxIncome(i), cashflow.tax_expense[i])
            /\ RatLt(PreTaxIncome(i), R(0)) =>
                   /\ cashflow.tax_expense[i] = R(0)
                   /\ cashflow.net_income[i] = PreTaxIncome(i)

\* C7 witness: a loss year followed by a profitable year that is taxed in
\* full on its own pre-tax income.
C7_Witness ==
    /\ Computed
    /\ RatGt(cf_in.plant.tax_rate, R(0))
    /\ \E i, j \in SeriesYears :
          /\ i < j
          /\ RatLt(PreTaxIncome(i), R(0))
          /\ cashflow.tax_expense[i] = R(0)
          /\ RatGt(PreTaxIncome(j), R(0))
          /\ cashflow.tax_expense[j] = RatMul(PreTaxIncome(j), cf_in.plant.tax_rate)

\* C8: year 1 of the worked example has revenue 438,000,000, depreciation
\* 50,000,000, interest 25,000,000, pre-tax income 363,000,000, tax
\* 90,750,000 and net income 272,250,000.
C8_WorkedExample ==
    (Computed /\ cf_in = ExampleCashInput) =>
        /\ cashflow.revenue[1] = R(438000000)
        /\ cashflow.depreciation[1] = R(50000000)
        /\ cashflow.interest_expense[1] = R(25000000)
        /\ PreTaxIncome(1) = R(363000000)
        /\ cashflow.tax_expense[1] = R(90750000)
        /\ cashflow.net_income[1] = R(272250000)

\* C8 witness: the worked example has been computed.
C8_Witness ==
    /\ Computed
    /\ cf_in = ExampleCashInput
    /\ cashflow.years[1] = 2025
    /\ cashflow.ebitda[1] = R(438000000)

DemandFactorOfYear(i) ==
    IF cf_in.market # None
    THEN get_demand_factor(cf_in.market, cf_in.start_year + i - 1, cf_in.start_year)
    ELSE R(1)

\* C10 as stated: every year's capacity factor is
\* max(0, min(base_cf x demand_factor x (1 - derate), water cap)), also
\* when base_cf x demand_factor exceeds 1.
C10_CapacityFactorFormula ==
    Computed =>
        \A i \in SeriesYears :
            cashflow.capacity_factor[i] =
                RatMax(R(0),
                       RatMin(RatMul(RatMul(cf_in.transition_adj.capacity_factor,
                                            DemandFactorOfYear(i)),
                                     RatSub(R(1), cf_in.physical_adj.capacity_derate)),
                              cf_in.physical_adj.water_constrained_capacity))

\* C10 amended: every year's capacity factor is
\* max(0, min(b x (1 - derate), water cap)) with b = min(1, base_cf x
\* demand_factor(year)) under a market scenario and b = base_cf without one.
C10_CapacityFactorCapped ==
    Computed =>
        \A i \in SeriesYears :
            LET scaled == RatMul(cf_in.transition_adj.capacity_factor, DemandFactorOfYear(i))
                b == IF cf_in.market # None THEN RatMin(R(1), scaled)
                     ELSE cf_in.transition_adj.capacity_factor
            IN  cashflow.capacity_factor[i] =
                    RatMax(R(0),
                           RatMin(RatMul(b, RatSub(R(1), cf_in.physical_adj.capacity_derate)),
                                  cf_in.physical_adj.water_constrained_capacity))

\* C10 witness: base_cf x demand_factor exceeds 1 in some year, the derate
\* is positive, the water cap does not bind, and the year's capacity factor
\* is 1 - derate.
C10_Witness ==
    /\ Computed
    /\ cf_in.market # None
    /\ cf_in.physical_adj.water_constrained_capacity = R(1)
    /\ cf_in.physical_adj.capacity_derate = <<1, 2>>
    /\ \E i \in SeriesYears :
          /\ RatGt(RatMul(cf_in.transition_adj.capacity_factor, DemandFactorOfYear(i)), R(1))
          /\ cashflow.capacity_factor[i] = <<1, 2>>

\* The generation (MWh) of year i at capacity factor cf: line 119.
Generation(cf, i) == RatMul(RatMul(cf_in.plant.capacity_mw, R(8760)), cf[i])

\* C11: of two runs for the same plant, transition adjustment and market
\* path, the one with the higher capacity derate or the higher outage rate
\* (the other not lower) has in no year a larger generation
\* capacity_mw x 8760 x capacity factor.
C11_GenerationMonotone ==
    cash_prev # None =>
        LET old == cash_prev.physical_adj
            new == cf_in.physical_adj
        IN  /\ (RatLe(old.capacity_derate, new.capacity_derate)
                   /\ RatLe(old.outage_rate, new.outage_rate)) =>
                   \A i \in SeriesYears :
                       RatLe(Generation(cashflow.capacity_factor, i),
                             Generation(cash_prev.capacity_factor, i))
            /\ (RatLe(new.capacity_derate, old.capacity_derate)
                   /\ RatLe(new.outage_rate, old.outage_rate)) =>
                   \A i \in SeriesYears :
                       RatLe(Generation(cash_prev.capacity_factor, i),
                             Generation(cashflow.capacity_factor, i))

\* C11 witness: the derate was raised, the water cap does not bind, and a
\* year's generation fell strictly.
C11_Witness ==
    /\ cash_prev # None
    /\ RatLt(cash_prev.physical_adj.capacity_derate, cf_in.physical_adj.capacity_derate)
    /\ RatLe(cash_prev.physical_adj.outage_rate, cf_in.physical_adj.outage_rate)
    /\ \E i \in SeriesYears :
          /\ RatGt(Generation(cashflow.capacity_factor, i), R(0))
          /\ RatLt(Generation(cashflow.capacity_factor, i),
                   Generation(cash_prev.capacity_factor, i))

\* The plant parameters, the power prices of the run, the carbon prices and
\* the outage rate of the input are all >= 0.
NonNegativeInputs ==
    /\ \A k \in {"capacity_mw", "power_price_per_mwh", "heat_rate_mmbtu_mwh",
                  "fuel_price_per_mmbtu", "fixed_opex_per_kw_year",
                  "variable_opex_per_mwh", "emissions_tCO2_per_mwh",
                  "total_capex_million", "tax_rate", "debt_fraction",
                  "debt_interest_rate"} :
          RatGe(cf_in.plant[k], R(0))
    /\ cf_in.plant.useful_life > 0
    /\ cf_in.plant.debt_tenor_years >= 0
    /\ RatGe(cf_in.transition_adj.capacity_factor, R(0))
    /\ RatGe(cf_in.physical_adj.outage_rate, R(0))
    /\ \A i \in SeriesYears :
          /\ RatGe(get_carbon_price(cf_in.scenario, cashflow.years[i]), R(0))
          /\ cf_in.market # None =>
                 RatGe(get_power_price(cf_in.market, cashflow.years[i], cf_in.start_year),
                       R(0))

\* C24: for non-negative plant parameters, power prices, carbon prices and
\* outage rate, every year's revenue, fuel cost, variable O&M, fixed O&M,
\* carbon cost, outage cost, depreciation, interest expense and tax expense
\* are >= 0, whatever the derate and the demand path.
C24_CostMagnitudesNonNegative ==
    (Computed /\ NonNegativeInputs) =>
        \A i \in SeriesYears :
            \A k \in {"revenue", "fuel_costs", "variable_opex", "fixed_opex",
                      "carbon_costs", "outage_costs", "depreciation",
                      "interest_expense", "tax_expense"} :
                RatGe(cashflow[k][i], R(0))

\* C24 witness: a derate above 1 with positive outage rate and carbon
\* price, in a year whose EBITDA, EBIT, net income and free cash flow are
\* all negative while interest is paid.
C24_Witness ==
    /\ Computed
    /\ NonNegativeInputs
    /\ RatGt(cf_in.physical_adj.capacity_derate, R(1))
    /\ RatGt(cf_in.physical_adj.outage_rate, R(0))
    /\ \E i \in SeriesYears :
          /\ RatLt(cashflow.ebitda[i], R(0))
          /\ RatLt(cashflow.ebit[i], R(0))
          /\ RatLt(cashflow.net_income[i], R(0))
          /\ RatLt(cashflow.free_cash_flow[i], R(0))
          /\ RatGt(cashflow.interest_expense[i], R(0))
          /\ cashflow.tax_expense[i] = R(0)

\* The loan of the run: amount, rate, tenor and level payment.
LoanAmount ==
    RatMul(RatMul(cf_in.plant.total_capex_million, R(1000000)), cf_in.plant.debt_fraction)

LoanRate == cf_in.plant.debt_interest_rate

LoanTenor == cf_in.plant.debt_tenor_years

Amortising == RatGt(LoanRate, R(0)) /\ LoanTenor > 0

\* The years the amortization loop visits.
LoanYears == {i \in SeriesYears : i <= LoanTenor}

\* The balance at the start of a visited year, read back from the interest
\* charged in it.
OpeningBalance(i) == RatDiv(cashflow.interest_expense[i], LoanRate)

\* C25: in the amortization loop each year's interest is the opening
\* balance times the rate, the balance falls by (annual_ds - interest) and
\* is never negative, so balance and interest are non-increasing; interest
\* is 0 after the debt tenor, and in every year when the rate or the tenor
\* is not positive.
C25_AmortizationSchedule ==
    Computed =>
        IF Amortising
        THEN LET annual_ds == annuity_payment(LoanRate, LoanTenor, LoanAmount)
             IN  /\ \A i \in LoanYears :
                       /\ i = 1 => OpeningBalance(i) = LoanAmount
                       /\ RatGe(OpeningBalance(i), R(0))
                       /\ i = LoanTenor =>
                            RatGe(RatSub(OpeningBalance(i),
                                         RatSub(annual_ds, cashflow.interest_expense[i])),
                                  R(0))
                       /\ (i + 1) \in LoanYears =>
                            /\ OpeningBalance(i + 1) =
                                  RatSub(OpeningBalance(i),
                                         RatSub(annual_ds, cashflow.interest_expense[i]))
                            /\ RatLe(OpeningBalance(i + 1), OpeningBalance(i))
                            /\ RatLe(cashflow.interest_expense[i + 1],
                                     cashflow.interest_expense[i])
                 /\ \A i \in SeriesYears \ LoanYears :
                       cashflow.interest_expense[i] = R(0)
        ELSE \A i \in SeriesYears : cashflow.interest_expense[i] = R(0)

\* C25 witness: a two-year loan in a three-year run; interest falls from
\* the first year to the second and is 0 in the third.
C25_Witness ==
    /\ Computed
    /\ Amortising
    /\ LoanTenor = 2
    /\ Cardinality(SeriesYears) = 3
    /\ cashflow.interest_expense[1] = RatMul(LoanAmount, LoanRate)
    /\ RatGt(cashflow.interest_expense[1], cashflow.interest_expense[2])
    /\ RatGt(cashflow.interest_expense[2], R(0))
    /\ cashflow.interest_expense[3] = R(0)

\* C29: calculate_crp_from_ratings and calculate_financing_with_counterfactual
\* give the same CRP (bps) for every scenario and counterfactual rating
\* whenever the financing parameters have debt_fraction 0.70 and
\* equity_fraction 0.30, whatever their risk-free rate.
C29_SameCrpFromBothRoutes ==
    (/\ fi_in # None
     /\ fi_in.kind = "calculate_financing_with_counterfactual"
     /\ fi_out # None
     /\ fi_in.params.debt_fraction = <<7, 10>>
     /\ fi_in.params.equity_fraction = <<3, 10>>)
        => fi_out.crp_bps =
              calculate_crp_from_ratings(fi_in.counterfactual_rating, fi_in.scenario_rating)

\* C29 witness: a 70/30 structure at a risk-free rate of 5%, a CCC scenario
\* against the A counterfactual; both routes give 585 bps.
C29_Witness ==
    /\ fi_in # None
    /\ fi_in.kind = "calculate_financing_with_counterfactual"
    /\ fi_out # None
    /\ fi_in.params.debt_fraction = <<7, 10>>
    /\ fi_in.params.equity_fraction = <<3, 10>>
    /\ fi_in.params.risk_free_rate = <<1, 20>>
    /\ fi_in.scenario_rating = CCC
    /\ fi_in.counterfactual_rating = A
    /\ fi_out.crp_bps = R(585)
    /\ calculate_crp_from_ratings(A, CCC) = R(585)

----------------------------------------------------------------------------
(* Properties of the debt service schedule.                                *)

Scheduled == debt_struct.kind = "debt"

RECURSIVE SumFirst(_, _)
SumFirst(f, n) == IF n = 0 THEN R(0) ELSE RatAdd(SumFirst(f, n - 1), f[n])

\* C9: the schedule has exactly tenor_years entries; every year principal +
\* interest is the constant annual debt service and interest is the opening
\* balance times the rate; the principal payments sum to the original debt
\* total_capex x debt_fraction (the closing balance is zero).
C9_LevelPaymentAmortization ==
    Scheduled =>
        LET ds == debt_struct
            opening(i) == RatSub(ds.debt_amount, SumFirst(ds.principal_schedule, i - 1))
        IN  /\ ds.debt_amount = RatMul(debt_in.total_capex, debt_in.debt_fraction)
            /\ DOMAIN ds.principal_schedule = 1..debt_in.tenor_years
            /\ DOMAIN ds.interest_schedule = 1..debt_in.tenor_years
            /\ \A i \in 1..debt_in.tenor_years :
                  /\ RatAdd(ds.principal_schedule[i], ds.interest_schedule[i])
                        = ds.annual_debt_service
                  /\ ds.interest_schedule[i] = RatMul(opening(i), debt_in.interest_rate)
            /\ SumFirst(ds.principal_schedule, debt_in.tenor_years) = ds.debt_amount

\* C9 witness: an interest-bearing loan over several years whose principal
\* payments grow from year to year and repay the debt.
C9_Witness ==
    /\ Scheduled
    /\ debt_in.tenor_years >= 2
    /\ RatGt(debt_in.interest_rate, R(0))
    /\ RatGt(debt_struct.debt_amount, R(0))
    /\ RatLt(debt_struct.principal_schedule[1], debt_struct.principal_schedule[2])
    /\ SumFirst(debt_struct.principal_schedule, debt_in.tenor_years) = debt_struct.debt_amount

----------------------------------------------------------------------------
(* Properties of the financing calculators.                                *)

Financed == fi_out.kind = "financing"

\* C12: for each of the three financing calculators crp_bps is (adjusted
\* WACC - reference WACC) x 10000, strictly positive when the adjusted WACC
\* exceeds the reference WACC and exactly 0 when the two are equal, as for a
\* scenario rated the same as the counterfactual.
C12_CrpIsWaccDifference ==
    Financed =>
        LET adjusted == RatDiv(fi_out.wacc_adjusted_pct, R(100))
            reference == RatDiv(fi_out.wacc_baseline_pct, R(100))
        IN  /\ fi_out.crp_bps = RatMul(RatSub(adjusted, reference), R(10000))
            /\ RatGt(adjusted, reference) => RatGt(fi_out.crp_bps, R(0))
            /\ adjusted = reference => fi_out.crp_bps = R(0)
            /\ (fi_in.kind = "calculate_financing_with_counterfactual"
                   /\ fi_in.scenario_rating = fi_in.counterfactual_rating)
                  => fi_out.crp_bps = R(0)

\* C12 witness: a scenario rated B against an A counterfactual, financed
\* 70/30: the CRP is 0.7 x 450 bps + 0.3 x 150 bps = 360 bps.
C12_Witness ==
    /\ Financed
    /\ fi_in.kind = "calculate_financing_with_counterfactual"
    /\ fi_in.scenario_rating = B
    /\ fi_in.counterfactual_rating = A
    /\ fi_in.params.debt_fraction = <<7, 10>>
    /\ fi_in.params.equity_fraction = <<3, 10>>
    /\ RatGt(fi_out.wacc_adjusted_pct, fi_out.wacc_baseline_pct)
    /\ fi_out.crp_bps = R(360)

----------------------------------------------------------------------------
(* Properties of the CLIMADA hazard data.                                  *)

Exported == hazard_dict.kind = "hazard_dict"

\* C17: total_outage_rate = min(1, (wildfire + flood) x compound) and
\* total_capacity_derate = min(1, slr_derate x compound); neither exceeds 1
\* and the multiplier (1 - derate) x (1 - outage) is never negative.
C17_HazardTotalsCapped ==
    Exported =>
        LET outage == RatMul(RatAdd(hazard.wildfire_outage_rate, hazard.flood_outage_rate),
                             hazard.compound_multiplier)
            derate == RatMul(hazard.slr_capacity_derate, hazard.compound_multiplier)
        IN  /\ hazard_dict.total_outage_rate =
                   (IF RatLt(outage, R(1)) THEN outage ELSE R(1))
            /\ hazard_dict.total_capacity_derate =
                   (IF RatLt(derate, R(1)) THEN derate ELSE R(1))
            /\ RatLe(hazard_dict.total_outage_rate, R(1))
            /\ RatLe(hazard_dict.total_capacity_derate, R(1))
            /\ RatGe(hazard_dict.effective_cf_multiplier, R(0))

\* C17 witness: both the summed outage and the derate, amplified, pass 1
\* and are capped: the plant's effective multiplier is 0.
C17_Witness ==
    /\ Exported
    /\ RatGt(RatMul(RatAdd(hazard.wildfire_outage_rate, hazard.flood_outage_rate),
                    hazard.compound_multiplier), R(1))
    /\ RatGt(RatMul(hazard.slr_capacity_derate, hazard.compound_multiplier), R(1))
    /\ hazard_dict.total_outage_rate = R(1)
    /\ hazard_dict.total_capacity_derate = R(1)
    /\ hazard_dict.effective_cf_multiplier = R(0)

\* C18 as stated: calculate_compound_risk without an interaction factor
\* returns the multiplier 1.2 + 0.8 x min(1, 10 x (wildfire + flood + slr)):
\* 1.2 at zero risk, between 1.2 and 1.3 at 0.6%, 2.0 from 10% on.
C18_CompoundMultiplierGrowsWithRisk ==
    (hazard # None /\ hazard_in.kind = "calculate_compound_risk") =>
        LET total == RatAdd(RatAdd(hazard_in.wildfire_outage, hazard_in.flood_outage),
                            hazard_in.slr_derate)
            risk_factor == RatMin(R(1), RatMul(R(10), total))
        IN  hazard.compound_multiplier = RatAdd(<<6, 5>>, RatMul(<<4, 5>>, risk_factor))

----------------------------------------------------------------------------
(* Properties of the probabilistic hazard engine.                          *)

\* C19: for every projection year and climate scenario the compound
\* multiplier lies between 1.2 and 2.0 inclusive and the compound EAL is the
\* summed individual EAL times the multiplier, never below that sum.
C19_CompoundMultiplierBounded ==
    pr_out.kind = "compound_risk" =>
        /\ RatGe(pr_out.compound_multiplier, <<6, 5>>)
        /\ RatLe(pr_out.compound_multiplier, R(2))
        /\ pr_out.total_eal_individual =
               RatAdd(pr_out.flood_eal, RatAdd(pr_out.wildfire_eal, pr_out.heat_wave_eal))
        /\ pr_out.total_eal_compound =
               RatMul(pr_out.total_eal_individual, pr_out.compound_multiplier)
        /\ RatGe(pr_out.total_eal_compound, pr_out.total_eal_individual)

\* C19 witness: the engine as constructed has a positive EAL and a system
\* stress over 0.1, so the multiplier is at its maximum 2.0 and the
\* compound EAL is twice the summed EAL.
C19_Witness ==
    /\ pr_out.kind = "compound_risk"
    /\ pr_in.engine.hazard_scenarios = hazard_scenarios
    /\ pr_in.year = 2034
    /\ RatGt(pr_out.total_eal_individual, R(0))
    /\ pr_out.compound_multiplier = R(2)
    /\ pr_out.total_eal_compound = RatMul(R(2), pr_out.total_eal_individual)

\* The probability mass of the first i pairs of a loss distribution.
RECURSIVE CumulativeMass(_, _)
CumulativeMass(dist, i) ==
    IF i = 0 THEN R(0) ELSE RatAdd(CumulativeMass(dist, i - 1), dist[i][1])

\* pml is the smallest loss of dist whose cumulative mass is >= 1 - p, if
\* there is one.
IsPmlOf(pml, dist, p) ==
    LET reaching == {i \in 1..Len(dist) : RatGe(CumulativeMass(dist, i), RatSub(R(1), p))}
    IN  reaching # {} =>
            /\ \E i \in reaching : pml = dist[i][2]
            /\ \A i \in reaching : RatLe(pml, dist[i][2])

\* C20: the PML at exceedance probability p is the smallest loss of the
\* loss-sorted event list whose cumulative probability mass, accumulated in
\* ascending order of loss, is >= 1 - p; the list calculate_annual_risk
\* hands over is sorted by loss.
C20_PmlIsSmallestLossReachingMass ==
    /\ pr_out.kind = "pml" => IsPmlOf(pr_out.pml, pr_in.loss_dist, pr_in.exceedance_prob)
    /\ pr_out.kind = "annual_risk" =>
          /\ \A i \in 1..(Len(pr_out.loss_distribution) - 1) :
                RatLe(pr_out.loss_distribution[i][2], pr_out.loss_distribution[i + 1][2])
          /\ IsPmlOf(pr_out.pml_100yr, pr_out.loss_distribution, <<1, 100>>)
          /\ IsPmlOf(pr_out.pml_250yr, pr_out.loss_distribution, <<1, 250>>)

\* C20 witness: three events of distinct losses; the mass reaches 1 - p at
\* the second, whose loss is the PML, below the largest loss.
C20_Witness ==
    /\ pr_out.kind = "pml"
    /\ Len(pr_in.loss_dist) = 3
    /\ pr_in.exceedance_prob = <<1, 2>>
    /\ RatLt(CumulativeMass(pr_in.loss_dist, 1), <<1, 2>>)
    /\ RatGe(CumulativeMass(pr_in.loss_dist, 2), <<1, 2>>)
    /\ pr_out.pml = pr_in.loss_dist[2][2]
    /\ RatLt(pr_in.loss_dist[1][2], pr_out.pml)
    /\ RatLt(pr_out.pml, pr_in.loss_dist[3][2])

\* The largest loss of a distribution, 0 for an empty one.
LargestLoss(dist) ==
    IF Len(dist) = 0 THEN R(0)
    ELSE CHOOSE l \in {dist[i][2] : i \in 1..Len(dist)} :
            \A i \in 1..Len(dist) : RatLe(dist[i][2], l)

\* C30: _get_pml is non-increasing in the exceedance probability: on one
\* loss distribution, p1 <= p2 gives PML(p1) >= PML(p2); hence
\* pml_250yr >= pml_100yr in every annual risk result; and when the total
\* probability mass of the events is below 1 - p the PML is the largest
\* loss of the distribution, 0 for an empty one.
C30_PmlNonIncreasingInExceedance ==
    /\ pr_out.kind = "pml" =>
          LET dist == pr_in.loss_dist
              p == pr_in.exceedance_prob
          IN  /\ \A p2 \in ExceedanceProbs :
                    /\ RatLe(p, p2) => RatGe(pr_out.pml, get_pml(dist, p2))
                    /\ RatLe(p2, p) => RatGe(get_pml(dist, p2), pr_out.pml)
              /\ RatLt(CumulativeMass(dist, Len(dist)), RatSub(R(1), p)) =>
                    pr_out.pml = LargestLoss(dist)
    /\ pr_out.kind = "annual_risk" =>
          /\ RatGe(pr_out.pml_250yr, pr_out.pml_100yr)
          /\ \A p \in {<<1, 100>>, <<1, 250>>} :
                RatLt(CumulativeMass(pr_out.loss_distribution,
                                     Len(pr_out.loss_distribution)),
                      RatSub(R(1), p)) =>
                    (IF p = <<1, 100>> THEN pr_out.pml_100yr ELSE pr_out.pml_250yr)
                        = LargestLoss(pr_out.loss_distribution)

\* C30 witness: three events of total mass 0.9; the 100-year PML falls
\* back to the largest loss and lies above the PML at one half.
C30_Witness ==
    /\ pr_out.kind = "pml"
    /\ Len(pr_in.loss_dist) = 3
    /\ pr_in.exceedance_prob = <<1, 100>>
    /\ CumulativeMass(pr_in.loss_dist, 3) = <<9, 10>>
    /\ pr_out.pml = pr_in.loss_dist[3][2]
    /\ RatGt(pr_out.pml, get_pml(pr_in.loss_dist, <<1, 2>>))
    /\ RatGt(pr_out.pml, pr_in.loss_dist[2][2])

----------------------------------------------------------------------------
(* Properties of the pipeline runner.                                      *)

KnownTransition(name) == name \in DOMAIN runner.policy_scenarios

\* The physical catalog read generously: the hazard table, the physical
\* risk table and the names _load_physical_scenario builds in.
KnownPhysical(name) ==
    \/ name \in DOMAIN runner.climada_hazards
    \/ name \in DOMAIN runner.physical_risks
    \/ name = "severe_drought"
    \/ lower(name) \in {"low", "medium", "high", "extreme"}

\* C13 as stated: run_scenario produces a result only for a scenario whose
\* transition name and physical name are both found in the loaded catalog;
\* an unknown name raises and is never replaced by a default scenario. The
\* entries before multi.i are those run_scenario returned a result for.
C13_UnknownNameRaises ==
    multi # None =>
        \A i \in 1..(multi.i - 1) :
            /\ KnownTransition(scenario_specs[i].transition)
            /\ KnownPhysical(scenario_specs[i].physical)

MultiReturned == multi # None /\ multi.pc = "returned"

RequestedNames == {scenario_specs[i].name : i \in 1..Len(scenario_specs)}

SecondPassStep ==
    /\ multi # None /\ multi.pc = "loop"
    /\ multi' # None /\ multi'.pc = "returned"

\* C26: the second pass of run_multi_scenario writes only the financing
\* field: the cash flow, metrics, credit rating and counterfactual CRP of
\* every result, the set of results, and the runner's plant parameters and
\* catalogs are as the first pass left them.
C26_SecondPassWritesOnlyFinancing ==
    [][SecondPassStep =>
          /\ runner' = runner
          /\ DOMAIN multi'.results = DOMAIN multi.results
          /\ \A n \in DOMAIN multi.results :
                /\ multi.results[n].financing = None
                /\ multi'.results[n].financing # None
                /\ \A f \in {"scenario_name", "cashflow", "metrics", "credit_rating",
                              "counterfactual_crp"} :
                      multi'.results[n][f] = multi.results[n][f]]_vars

\* C26 witness: the second pass has run over two results; each carries a
\* financing impact next to the counterfactual analysis and the rating of
\* the first pass.
C26_Witness ==
    /\ MultiReturned
    /\ Cardinality(DOMAIN multi.results) = 2
    /\ \A n \in DOMAIN multi.results :
          /\ multi.results[n].financing # None
          /\ multi.results[n].counterfactual_crp # None
          /\ multi.results[n].credit_rating =
                run_scenario(runner, CHOOSE sp \in ScenarioSpecs :
                                 \E i \in 1..Len(scenario_specs) :
                                    scenario_specs[i] = sp /\ sp.name = n,
                             fp_tie_up).credit_rating

\* C27: no financing impact exists until every scenario has run; on
\* return each scenario's NPV loss is measured (floored at 0) against the
\* NPV of the result named "baseline", wherever that name stands in the
\* list; when no scenario is named "baseline", the NPV loss and the
\* expected-loss percentage of every scenario are 0.
C27_FinancingAgainstBaselineAfterAllRuns ==
    multi # None =>
        /\ multi.pc # "returned" =>
              \A n \in DOMAIN multi.results : multi.results[n].financing = None
        /\ multi.pc = "returned" =>
              /\ multi.i = Len(scenario_specs) + 1
              /\ \A n \in DOMAIN multi.results :
                    LET result == multi.results[n]
                    IN  IF "baseline" \in RequestedNames
                        THEN result.financing.npv_loss_million =
                                 RatDiv(RatMax(R(0),
                                               RatSub(multi.results["baseline"].metrics.npv,
                                                      result.metrics.npv)),
                                        R(1000000))
                        ELSE /\ result.financing.npv_loss_million = R(0)
                             /\ result.financing.expected_loss_pct = R(0)

\* C27 witness: "baseline" is the second entry of the list, and the first
\* entry's result carries a positive NPV loss against it.
C27_Witness ==
    /\ MultiReturned
    /\ Len(scenario_specs) = 2
    /\ scenario_specs[1].name # "baseline"
    /\ scenario_specs[2].name = "baseline"
    /\ RatGt(multi.results[scenario_specs[1].name].financing.npv_loss_million, R(0))
    /\ multi.results["baseline"].financing.npv_loss_million = R(0)

ThreadFinished(t) == threads[t].pc \in {"done", "raised"}

\* C15: under every interleaving of the steps of concurrent run_scenario
\* calls, each call ends with the result (or the exception) run_scenario
\* gives for its scenario when run alone, and no step changes the runner's
\* plant parameters and catalogs.
C15_ConcurrentRunsAsSequential ==
    /\ [](threads # None =>
            \A t \in Threads :
                ThreadFinished(t) =>
                    threads[t].result =
                        run_scenario(runner, threads[t].scenario_spec, fp_tie_up))
    /\ [][runner' = runner]_vars

\* Two calls for different scenarios on the same transition row, both
\* finished with a result, the second having loaded its scenario while the
\* first was still running.
C15_Witness ==
    /\ threads # None
    /\ threads["t1"].pc = "done"
    /\ threads["t2"].pc = "done"
    /\ threads["t1"].scenario_spec.transition = threads["t2"].scenario_spec.transition
    /\ threads["t1"].result # threads["t2"].result

----------------------------------------------------------------------------
(* Properties of the carbon price trajectories.                            *)

\* Two queries were made, the earlier one kept in cp_prev.
QueriedTwice == cp_prev # None /\ cp_out # None

\* C21: the high_ambition trajectory exceeds the current_policy trajectory
\* at every queried year >= 2030, interpolated years between anchors and
\* extrapolated years after the last anchor (2050) included.
C21_HighAmbitionExceedsCurrentPolicy ==
    (/\ QueriedTwice
     /\ cp_prev.subject = create_korea_ets_current_policy
     /\ cp_in.subject = create_high_ambition_scenario
     /\ cp_in.year = cp_prev.year
     /\ cp_in.year >= 2030)
        => PriceLt(cp_prev.price, cp_out)

\* C22: the no_policy trajectory returns a carbon price of 0 for every
\* queried integer year: before its first anchor, among its anchors and
\* beyond its last anchor.
C22_NoPolicyPriceIsZero ==
    (cp_out # None /\ cp_in.subject = create_no_policy_baseline)
        => /\ cp_out = Exact(R(0))
           /\ (cp_prev # None /\ cp_prev.subject = create_no_policy_baseline)
                 => cp_prev.price = Exact(R(0))

\* C22 witness: the no_policy trajectory queried at its last anchor (2060)
\* and then a year beyond it, with a price of 0 both times.
C22_Witness ==
    /\ QueriedTwice
    /\ cp_prev.subject = create_no_policy_baseline
    /\ cp_in.subject = create_no_policy_baseline
    /\ cp_prev.year = SetMax(DOMAIN create_no_policy_baseline.price_trajectory)
    /\ cp_in.year = cp_prev.year + 1
    /\ cp_prev.price = Exact(R(0))
    /\ cp_out = Exact(R(0))

\* The anchors get_carbon_price reads for a trajectory.
AnchorsOf(subject) ==
    IF subject.kind = "CarbonPricingScenario" THEN subject.price_trajectory
    ELSE IF subject.carbon_scenario # None THEN subject.carbon_scenario.price_trajectory
    ELSE (2025 :> subject.carbon_price_2025) @@ (2030 :> subject.carbon_price_2030)
         @@ (2040 :> subject.carbon_price_2040) @@ (2050 :> subject.carbon_price_2050)

IncreasingAnchors(subject) ==
    \A y1, y2 \in DOMAIN AnchorsOf(subject) :
        y1 < y2 => RatLt(AnchorsOf(subject)[y1], AnchorsOf(subject)[y2])

\* The same trajectory queried twice, its anchor prices increasing.
IncreasingQueriedTwice ==
    /\ QueriedTwice
    /\ cp_prev.subject = cp_in.subject
    /\ IncreasingAnchors(cp_in.subject)

\* The second query asks for 2030 after 2024, or for 2050 after 2030.
MilestoneStep == <<cp_prev.year, cp_in.year>> \in {<<2024, 2030>>, <<2030, 2050>>}

\* Anchors on both sides of 2030.
AnchorsSpan2030(subject) ==
    /\ DOMAIN AnchorsOf(subject) # {}
    /\ SetMin(DOMAIN AnchorsOf(subject)) < 2030
    /\ SetMax(DOMAIN AnchorsOf(subject)) > 2030

\* C23 as stated: for any trajectory whose anchor prices increase with the
\* year, get_carbon_price is non-decreasing from each year to the next, and
\* price(2050) > price(2030) > price(2024).
C23_IncreasingTrajectoryOrdered ==
    IncreasingQueriedTwice =>
        /\ cp_in.year = cp_prev.year + 1 => PriceLe(cp_prev.price, cp_out)
        /\ MilestoneStep => PriceLt(cp_prev.price, cp_out)

\* C23 amended: for any trajectory whose anchor prices increase with the
\* year, get_carbon_price is non-decreasing from each year to the next; and
\* price(2050) > price(2030) > price(2024) when the trajectory has an
\* anchor before 2030 and an anchor after 2030.
C23_IncreasingTrajectoryOrderedAcrossAnchors ==
    IncreasingQueriedTwice =>
        /\ cp_in.year = cp_prev.year + 1 => PriceLe(cp_prev.price, cp_out)
        /\ (MilestoneStep /\ AnchorsSpan2030(cp_in.subject)) =>
              PriceLt(cp_prev.price, cp_out)

\* C23 witness: the IEA APS trajectory queried at 2030 and then at 2050,
\* its last anchor, the price rising from 90 to 230.
C23_Witness ==
    /\ IncreasingQueriedTwice
    /\ cp_in.subject = create_iea_aps_scenario
    /\ AnchorsSpan2030(cp_in.subject)
    /\ cp_prev.year = 2030 /\ cp_in.year = 2050
    /\ cp_prev.price = Exact(R(90))
    /\ cp_out = Grown(R(230), <<46, 39>>, 0, 5)

============================================================================
